---- MODULE Spec2Model ----
(***************************************************************************)
(* Verification model of the `tunnel` HTTPS client:                        *)
(*   - the HTTP/1.x response decoder (src/src/http1/response.rs,           *)
(*     src/src/http1/headers.rs), modelled byte by byte;                   *)
(*   - the connection actor HttpsConn and the Client handle                *)
(*     (src/src/http1/client.rs).                                          *)
(* A byte is a one-character string; a byte buffer is a sequence of bytes. *)
(* Rust's Option<T> is a sequence of length 0 (None) or 1 (Some).          *)
(* A panic of the Rust code is an explicit outcome ("Panic:...").          *)
(***************************************************************************)
EXTENDS Integers, Sequences, FiniteSets, TLC

VARIABLES
    \* ---- decoder harness (DecoderSpec) and the actor's decoder ----
    decoder,      \* the DataDecoder
    input,        \* DecoderSpec: name of the sample being fed
    fed,          \* DecoderSpec: number of bytes of input.bytes passed to decode() so far
    calls,        \* DecoderSpec: number of decode() calls made
    lastRes,      \* DecoderSpec: result of the last decode() call
    everFinished, \* DecoderSpec: fed-count at which finished() was first observed true, or -1
    got,          \* DecoderSpec: Option<Response> returned by the last get_resp()
    gotAt,        \* DecoderSpec: value of `fed` when get_resp() first returned Some, or -1
    dpanic,       \* DecoderSpec: "" or the panic that ended the run
    \* ---- connection actor (ActorSpec, FairActorSpec) ----
    mailbox,      \* mpsc queue of envelopes (ids), HttpsConn::recv
    nextId,       \* id of the next envelope Client::execute creates
    clientAlive,  \* the Client (both mpsc senders) has not been dropped
    shutdownSig,  \* number of () signals queued on HttpsConn::shutdown
    chan,         \* HttpsConn::chan, Option<Envelope>
    envl,         \* the local `envl` of a poll in progress, Option<Envelope>
    pc,           \* position of the actor task
    iter,         \* loop counter of `for _ in 0..8`
    apanic,       \* "" or the panic that killed the actor task
    rx,           \* per envelope: state of the caller's oneshot::Receiver
    tx,           \* per envelope: state of the oneshot::Sender held in the Envelope
    sends,        \* log of the oneshot sends the actor performed
    accepted,     \* envelopes for which a poll_write returned Ready(Ok)
    resubmitted,  \* envelopes passed to poll_write again after being accepted
    written,      \* envelopes passed to poll_write at least once, in first-write order
    peerQueue,    \* request copies the peer has received and not yet answered
    inbound,      \* plaintext bytes sent by the peer and not yet read
    peerClosed,   \* the peer closed the connection (close_notify)
    lastPoll,     \* how the latest poll of HttpsConn began: [sig, id, out]
    wakeDue,      \* the actor task is scheduled: spawned or woken, and not polled since
    \* ---- TLS stream and Handshake Future (HandshakeSpec) ----
    hsFuture,     \* the Ready<IO> enum: "Handshaking" or "Done"
    streamAt,     \* where the Stream is: "future", "poll" (local of Ready::poll), "caller", "dropped"
    conn,         \* the TLS engine (rustls ClientConnection) of the Stream
    hs,           \* the Stream::handshake call in progress: position and locals
    hsRes,        \* what the latest Ready::poll returned
    lastRound,    \* how the latest Stream::handshake call returned
    ioOps,        \* transport operations performed so far
    \* ---- Stream::poll_write and Stream::poll_read (StreamSpec) ----
    sio,          \* the poll_write or poll_read call in progress: position and locals
    sres,         \* what the latest poll_write or poll_read returned
    eng,          \* the receiving side of the TLS engine: plaintext buffered, close_notify, failure
    wbuf,         \* the buffer the caller is submitting with poll_write
    handed,       \* the plaintext handed to the engine's writer since wbuf was first submitted
    tEof,         \* the transport has reported end-of-file
    \* ---- HeaderList and ReqBuilder (RequestSpec) ----
    hlist,        \* the HeaderList of a Client, filled by put()
    hputs,        \* number of put() calls made on hlist
    hread,        \* what the latest get(), header_slice() or iter() of hlist returned
    hlive,        \* hlist has not been dropped
    hfreed,       \* the slots Drop destroyed, in order
    req           \* the latest request built: the ReqBuilder's inputs and construct()'s bytes

decVars == <<decoder, input, fed, calls, lastRes, everFinished, got, gotAt, dpanic>>
actVars == <<mailbox, nextId, clientAlive, shutdownSig, chan, envl, pc, iter, apanic, rx, tx, sends,
             accepted, resubmitted, written, peerQueue, inbound, peerClosed, lastPoll,
             wakeDue>>
hsVars == <<hsFuture, streamAt, conn, hs, hsRes, lastRound, ioOps>>
ioVars == <<sio, sres, eng, wbuf, handed, tEof>>
reqVars == <<hlist, hputs, hread, hlive, hfreed, req>>
vars == <<decoder, input, fed, calls, lastRes, everFinished, got, gotAt, dpanic,
          mailbox, nextId, clientAlive, shutdownSig, chan, envl, pc, iter, apanic, rx, tx, sends,
          accepted, resubmitted, written, peerQueue, inbound, peerClosed, lastPoll,
          wakeDue,
          hsFuture, streamAt, conn, hs, hsRes, lastRound, ioOps,
          sio, sres, eng, wbuf, handed, tEof,
          hlist, hputs, hread, hlive, hfreed, req>>

(***************************************************************************)
(* Bytes                                                                   *)
(***************************************************************************)
CR == "\r"
LF == "\n"
\* a byte that is not valid UTF-8 on its own (0xFF)
BadByte == "#FF"

Min(a, b) == IF a < b THEN a ELSE b

\* buf[from..to] of Rust: 0-based, `to` exclusive
Slice(buf, from, to) == SubSeq(buf, from + 1, to)
\* buf[from..]
SliceFrom(buf, from) == SubSeq(buf, from + 1, Len(buf))

\* memchr(c, buf): 0-based index of the first c, -1 for None
memchr(c, buf) ==
    IF \E i \in 1..Len(buf) : buf[i] = c
    THEN (CHOOSE i \in 1..Len(buf) : buf[i] = c /\ \A j \in 1..(i - 1) : buf[j] # c) - 1
    ELSE -1

\* str::from_utf8(bytes).is_ok()
from_utf8_ok(bytes) == \A i \in 1..Len(bytes) : bytes[i] # BadByte

\* Cursor::fill_buf: the bytes from min(pos, len) on
fill_buf(data, pos) == SliceFrom(data, Min(pos, Len(data)))

DecDigits == <<"0", "1", "2", "3", "4", "5", "6", "7", "8", "9">>
HexLower == <<"a", "b", "c", "d", "e", "f">>
HexUpper == <<"A", "B", "C", "D", "E", "F">>

\* value of one digit in the radix, -1 if it is no digit of that radix
DigitVal(c, radix) ==
    IF \E i \in 1..10 : DecDigits[i] = c
    THEN (CHOOSE i \in 1..10 : DecDigits[i] = c) - 1
    ELSE IF radix = 16 /\ \E i \in 1..6 : HexLower[i] = c
    THEN 9 + (CHOOSE i \in 1..6 : HexLower[i] = c)
    ELSE IF radix = 16 /\ \E i \in 1..6 : HexUpper[i] = c
    THEN 9 + (CHOOSE i \in 1..6 : HexUpper[i] = c)
    ELSE -1

RECURSIVE DigitsVal(_, _, _)
\* value of a non-empty all-digit sequence, acc is the value so far
DigitsVal(s, radix, acc) ==
    IF s = <<>> THEN acc
    ELSE DigitsVal(Tail(s), radix, acc * radix + DigitVal(Head(s), radix))

\* <unsigned>::from_str_radix(s, radix): an optional "+", then one or more
\* digits; -1 stands for Err. (Overflow of the integer type is out of reach of
\* the bounded inputs: they have at most three digits.)
from_str_radix(s, radix) ==
    LET body == IF s # <<>> /\ Head(s) = "+" THEN Tail(s) ELSE s
    IN  IF body = <<>> \/ \E i \in 1..Len(body) : DigitVal(body[i], radix) = -1
        THEN -1
        ELSE DigitsVal(body, radix, 0)

\* str_to_usize: from_utf8, then usize::from_str_radix(string, 16); -1 is None
str_to_usize(line) ==
    IF from_utf8_ok(line) THEN from_str_radix(line, 16) ELSE -1

(***************************************************************************)
(* Headers (src/src/http1/headers.rs)                                      *)
(***************************************************************************)
sContentLength == <<"C", "o", "n", "t", "e", "n", "t", "-", "L", "e", "n", "g", "t", "h">>
sContentType == <<"C", "o", "n", "t", "e", "n", "t", "-", "T", "y", "p", "e">>
sContentEncoding == <<"C", "o", "n", "t", "e", "n", "t", "-", "E", "n", "c", "o", "d", "i", "n", "g">>
sContentLanguage == <<"C", "o", "n", "t", "e", "n", "t", "-", "L", "a", "n", "g", "u", "a", "g", "e">>
sTransferEncoding == <<"T", "r", "a", "n", "s", "f", "e", "r", "-", "E", "n", "c", "o", "d", "i", "n", "g">>
sConnection == <<"C", "o", "n", "n", "e", "c", "t", "i", "o", "n">>
sGzip == <<"g", "z", "i", "p">>
sChunked == <<"c", "h", "u", "n", "k", "e", "d">>
sDeflate == <<"d", "e", "f", "l", "a", "t", "e">>
sGzipChunked == <<"g", "z", "i", "p", ",", " ", "c", "h", "u", "n", "k", "e", "d">>
sChunkedGzip == <<"c", "h", "u", "n", "k", "e", "d", ",", " ", "g", "z", "i", "p">>
sDeflateChunked == <<"d", "e", "f", "l", "a", "t", "e", ",", " ", "c", "h", "u", "n", "k", "e", "d">>
sChunkedDeflate == <<"c", "h", "u", "n", "k", "e", "d", ",", " ", "d", "e", "f", "l", "a", "t", "e">>
sClose == <<"c", "l", "o", "s", "e">>
sAppJson == <<"a", "p", "p", "l", "i", "c", "a", "t", "i", "o", "n", "/", "j", "s", "o", "n">>
sTextPlain == <<"t", "e", "x", "t", "/", "p", "l", "a", "i", "n">>
sTextHtml == <<"t", "e", "x", "t", "/", "h", "t", "m", "l">>
sImagePng == <<"i", "m", "a", "g", "e", "/", "p", "n", "g">>
sImageJpeg == <<"i", "m", "a", "g", "e", "/", "j", "p", "e", "g">>
sImageJpg == <<"i", "m", "a", "g", "e", "/", "j", "p", "g">>
sImageGif == <<"i", "m", "a", "g", "e", "/", "g", "i", "f">>

\* MimeType::recognize
MimeType_recognize(line) ==
    CASE line = sAppJson -> "AppJson"
      [] line = sTextPlain -> "TextPlain"
      [] line = sTextHtml -> "TextHtml"
      [] line = sImagePng -> "ImagePng"
      [] line = sImageJpeg -> "ImageJpeg"
      [] line = sImageJpg -> "ImageJpeg"
      [] line = sImageGif -> "ImageGif"
      [] OTHER -> "Unimplemented"

\* ConnectionState::recognize
ConnectionState_recognize(line) == IF line = sClose THEN "Close" ELSE "KeepAlive"

\* TrfrEncodingType::recognize
TrfrEncodingType_recognize(line) ==
    CASE line = sGzip -> "Gzip"
      [] line = sChunked -> "Chunked"
      [] line = sDeflate -> "Deflate"
      [] line = sGzipChunked \/ line = sChunkedGzip -> "GzipChunked"
      [] line = sDeflateChunked \/ line = sChunkedDeflate -> "DeflateChunked"
      [] OTHER -> "Unknown"

\* 0-based index of the first ": " in s, -1 if there is none
FindColonSpace(s) ==
    IF \E i \in 1..(Len(s) - 1) : s[i] = ":" /\ s[i + 1] = " "
    THEN (CHOOSE i \in 1..(Len(s) - 1) :
              /\ s[i] = ":" /\ s[i + 1] = " "
              /\ \A j \in 1..(i - 1) : ~(s[j] = ":" /\ s[j + 1] = " ")) - 1
    ELSE -1

\* A Header value. kind is the enum variant; num, tag, name, val carry the
\* payload of the variant (unused ones are 0 / "" / <<>>).
MkHeader(kind, num, tag, name, val) ==
    [kind |-> kind, num |-> num, tag |-> tag, name |-> name, val |-> val]

\* Header::serialize(line): Option-like result, <<>> is Err, <<h>> is Ok(h).
\* line.split(": "): name is the first piece, val the second; further pieces
\* are not looked at.
Header_serialize(line) ==
    LET i1 == FindColonSpace(line)
        name == Slice(line, 0, i1)
        rest == SliceFrom(line, i1 + 2)
        i2 == FindColonSpace(rest)
        val == IF i2 = -1 THEN rest ELSE Slice(rest, 0, i2)
    IN  IF i1 = -1 THEN <<>>
        ELSE CASE name = sContentLength ->
                    IF from_str_radix(val, 10) = -1 THEN <<>>
                    ELSE <<MkHeader("ContentLength", from_str_radix(val, 10), "", <<>>, <<>>)>>
               [] name = sContentType ->
                    <<MkHeader("ContentType", 0, MimeType_recognize(val), <<>>, <<>>)>>
               [] name = sContentEncoding ->
                    <<MkHeader("ContentEncoding", 0, "", <<>>, val)>>
               [] name = sContentLanguage ->
                    <<MkHeader("ContentLanguage", 0, "", <<>>, val)>>
               [] name = sTransferEncoding ->
                    <<MkHeader("TransferEncoding", 0, TrfrEncodingType_recognize(val), <<>>, <<>>)>>
               [] name = sConnection ->
                    <<MkHeader("Connection", 0, ConnectionState_recognize(val), <<>>, <<>>)>>
               [] OTHER ->
                    <<MkHeader("Unimplemented", 0, "", name, val)>>

(***************************************************************************)
(* DataDecoder (src/src/http1/response.rs)                                 *)
(***************************************************************************)
\* DataDecoder::new(). (The snap field is never written: state_mut is only
\* called with a closure that compares, so it is left out.)
DataDecoder_new ==
    [encoding |-> "None", state |-> "Headers", content |-> <<>>,
     resp |-> <<>>, content_len |-> <<>>]

\* Response { code, headers, content }
MkResponse(code, headers, content) ==
    [code |-> code, headers |-> headers, content |-> content]

\* result of a decoder operation: the decoder afterwards and
\* "Ok", "Err:<variant>" or "Panic:<what>"
Outcome(d, res) == [d |-> d, res |-> res]

IsPanic(res) ==
    res \in {"Panic:slice", "Panic:todo", "Panic:unwrap", "Panic:chan should be here",
             "Panic:unreachable"}
IsErr(res) == res \in {"Err:Empty", "Err:InvalidHeader", "Err:InvalidFirstLine", "Err:InvalidBody"}

\* DataDecoder::finished
finished(me) == me.state = "Finished"

\* DataDecoder::get_resp: [d, out, res]; out is the Option<Response> returned
get_resp(me) ==
    IF finished(me)
    THEN IF me.resp = <<>>
         THEN [d |-> me, out |-> <<>>, res |-> "Panic:unwrap"]
         ELSE [d |-> [me EXCEPT !.resp = <<>>, !.content = <<>>],
               out |-> <<MkResponse(me.resp[1].code, me.resp[1].headers,
                                    IF Len(me.content) = 0 THEN <<>> ELSE <<me.content>>)>>,
               res |-> "Ok"]
    ELSE [d |-> me, out |-> <<>>, res |-> "Ok"]

\* Response::status: the class of the status code; codes above 599 reach
\* unreachable!()
Response_status(resp) ==
    CASE resp.code <= 199 -> "Informational"
      [] resp.code <= 299 -> "Successful"
      [] resp.code <= 399 -> "Redirection"
      [] resp.code <= 499 -> "ClientError"
      [] resp.code <= 599 -> "ServerError"
      [] OTHER -> "Panic:unreachable"

\* the effect of one recognised header on the decoder, parse_headers' inner match
apply_header(me, header) ==
    CASE header.kind = "TransferEncoding" ->
            [me EXCEPT !.state = "ChunkedContent", !.encoding = header.tag]
      [] header.kind = "ContentLength" ->
            [me EXCEPT !.content_len = <<header.num>>]
      [] OTHER -> me

RECURSIVE header_loop(_, _, _, _, _)
\* the `loop` of parse_headers over the header lines: [d, res, pos]
header_loop(me, data, pos, headers, status_code) ==
    LET buf == fill_buf(data, pos)
        num == memchr(CR, buf)
        string == Slice(buf, 0, num)
        hdr == Header_serialize(string)
        done(p) == [d |-> [me EXCEPT !.resp = <<MkResponse(status_code, headers, <<>>)>>],
                    res |-> "Ok", pos |-> p]
    IN  IF Len(buf) = 0 THEN done(pos)
        ELSE IF num = -1 THEN done(pos)
        ELSE IF ~from_utf8_ok(string) THEN [d |-> me, res |-> "Err:InvalidHeader", pos |-> pos]
        ELSE IF Len(string) = 0 THEN done(pos + 2)
        ELSE IF hdr = <<>> THEN header_loop(me, data, pos + num + 2, headers, status_code)
        ELSE header_loop(apply_header(me, hdr[1]), data, pos + num + 2,
                         Append(headers, hdr[1]), status_code)

\* DataDecoder::parse_headers: [d, res, pos]; pos is the cursor position returned
parse_headers(me0, data) ==
    LET me == [me0 EXCEPT !.state = "Content"]
        num == memchr(CR, data)
        rdlen == num + 2
        string_num == Slice(data, 9, 12)
    IN  IF num = -1 THEN [d |-> [me EXCEPT !.state = "Error"], res |-> "Err:Empty", pos |-> 0]
        ELSE IF rdlen > Len(data) THEN [d |-> me, res |-> "Panic:slice", pos |-> 0]
        ELSE IF rdlen < 12 THEN [d |-> me, res |-> "Panic:slice", pos |-> 0]
        ELSE IF ~from_utf8_ok(string_num)
             THEN [d |-> me, res |-> "Err:InvalidFirstLine", pos |-> 0]
        ELSE IF from_str_radix(string_num, 10) = -1
             THEN [d |-> me, res |-> "Err:InvalidFirstLine", pos |-> 0]
        ELSE header_loop(me, data, rdlen, <<>>, from_str_radix(string_num, 10))

RECURSIVE chunk_loop(_, _, _)
\* the `loop` of chunked_decode, pos is the cursor position
chunk_loop(me, data, pos) ==
    LET buf == fill_buf(data, pos)
        index == memchr(CR, buf)
        len == str_to_usize(Slice(buf, 0, index))
    IN  IF Len(buf) = 0 THEN Outcome(me, "Ok")
        ELSE IF index = -1 THEN Outcome([me EXCEPT !.state = "Finished"], "Ok")
        ELSE IF index = 0 THEN Outcome([me EXCEPT !.state = "Finished"], "Ok")
        ELSE IF len = -1 THEN Outcome([me EXCEPT !.state = "Error"], "Err:InvalidBody")
        ELSE IF len = 0 THEN Outcome([me EXCEPT !.state = "Finished"], "Ok")
        ELSE IF index + 2 > len + 3 \/ len + 3 > Len(buf) THEN Outcome(me, "Panic:slice")
        ELSE chunk_loop([me EXCEPT !.content = @ \o Slice(buf, index + 2, len + 3)],
                        data, pos + index + len + 4)

\* DataDecoder::chunked_decode
chunked_decode(me, data) == chunk_loop(me, data, 0)

\* mutant of plain_decode: without a declared length the body is never complete
plain_decode_NeedsLength(me, bytes) ==
    LET content == me.content \o bytes
        ready == IF me.content_len # <<>> THEN me.content_len[1] = Len(content) ELSE FALSE
    IN  Outcome([me EXCEPT !.content = content,
                           !.state = IF ready THEN "Finished" ELSE @], "Ok")

\* the `_` arm of decode's match: plain body accumulation
plain_decode(me, bytes) ==
    LET content == me.content \o bytes
        ready == IF me.content_len # <<>> THEN me.content_len[1] = Len(content) ELSE TRUE
    IN  Outcome([me EXCEPT !.content = content,
                           !.state = IF ready THEN "Finished" ELSE @], "Ok")

\* decode after the header phase: ph is [d, res, pos], what parse_headers
\* returned (or the unchanged decoder and position 0 outside the Headers phase)
decode_body(ph, data) ==
    IF ph.res # "Ok" THEN Outcome(ph.d, ph.res)
    ELSE IF ph.pos > Len(data) THEN Outcome(ph.d, "Panic:slice")
    ELSE CASE ph.d.encoding = "Chunked" -> chunked_decode(ph.d, SliceFrom(data, ph.pos))
           [] ph.d.encoding \in {"Gzip", "GzipChunked"} -> Outcome(ph.d, "Panic:todo")
           [] OTHER -> plain_decode(ph.d, SliceFrom(data, ph.pos))

\* mutant of decode: the phase Finished is not tested
decode_NoFinishedCheck(me, data) ==
    decode_body(IF me.state = "Headers" THEN parse_headers(me, data)
                ELSE [d |-> me, res |-> "Ok", pos |-> 0],
                data)

\* DataDecoder::decode
decode(me, data) ==
    IF me.state = "Finished" THEN Outcome(me, "Ok")
    ELSE decode_body(IF me.state = "Headers" THEN parse_headers(me, data)
                     ELSE [d |-> me, res |-> "Ok", pos |-> 0],
                     data)

(***************************************************************************)
(* Sample responses: the inputs of DecoderSpec and the peer's answers      *)
(***************************************************************************)
CRLF == <<CR, LF>>
StatusLine201 == <<"H", "T", "T", "P", "/", "1", ".", "1", " ", "2", "0", "1", " ", "O", "K", CR, LF>>

\* one header line on the wire: `Name: value\r\n`
HdrLine(name, val) == name \o <<":", " ">> \o val \o CRLF

\* one chunk record on the wire: `<hex-length>\r\n<chunk-bytes>\r\n`, for a
\* payload of fewer than 16 bytes (one hex digit)
ChunkRecord(payload) ==
    <<(DecDigits \o HexLower)[Len(payload) + 1]>> \o CRLF \o payload \o CRLF
LastChunk == <<"0", CR, LF, CR, LF>>

RECURSIVE Flatten(_)
Flatten(ss) == IF ss = <<>> THEN <<>> ELSE Head(ss) \o Flatten(Tail(ss))

RECURSIVE ChunkRecords(_)
ChunkRecords(payloads) ==
    IF payloads = <<>> THEN <<>>
    ELSE ChunkRecord(Head(payloads)) \o ChunkRecords(Tail(payloads))

\* a sample: the wire bytes and what they are meant to say.
\*   kind      "length" (Content-Length framing), "chunked", "nolen", "badlen"
\*   hdrLen    number of bytes up to and including the blank line
\*   declared  the declared Content-Length (0 when there is none)
\*   code, headers, body   the Response a correct decoder yields
MkSample(kind, wellFormed, hdrBytes, wireBody, declared, headers, body) ==
    [kind |-> kind, wellFormed |-> wellFormed,
     bytes |-> StatusLine201 \o hdrBytes \o CRLF \o wireBody,
     hdrLen |-> Len(StatusLine201) + Len(hdrBytes) + 2,
     declared |-> declared, code |-> 201, headers |-> headers, body |-> body]

HContentLength(n) == MkHeader("ContentLength", n, "", <<>>, <<>>)
HChunked == MkHeader("TransferEncoding", 0, "Chunked", <<>>, <<>>)
HLangEn == MkHeader("ContentLanguage", 0, "", <<>>, <<"e", "n">>)
HUnknownXA == MkHeader("Unimplemented", 0, "", <<"X", "-", "A">>, <<"b">>)

\* "HTTP/1.1 201 OK\r\nContent-Length: 2\r\n\r\nAS"
SampleLen2 ==
    MkSample("length", TRUE, HdrLine(sContentLength, <<"2">>), <<"A", "S">>, 2,
             <<HContentLength(2)>>, <<"A", "S">>)
\* three header lines, body "ABC"
SampleLen3 ==
    MkSample("length", TRUE,
             HdrLine(sContentLength, <<"3">>) \o HdrLine(sContentLanguage, <<"e", "n">>)
                 \o HdrLine(<<"X", "-", "A">>, <<"b">>),
             <<"A", "B", "C">>, 3,
             <<HContentLength(3), HLangEn, HUnknownXA>>, <<"A", "B", "C">>)
\* Content-Length: 2 followed by three bytes (one byte beyond the declared body)
SampleLenOver ==
    MkSample("length", FALSE, HdrLine(sContentLength, <<"2">>), <<"A", "S", "D">>, 2,
             <<HContentLength(2)>>, <<"A", "S">>)
\* chunked, payloads "test" and "ab"
SampleChunked ==
    MkSample("chunked", TRUE, HdrLine(sTransferEncoding, sChunked),
             ChunkRecords(<<(<<"t", "e", "s", "t">>), (<<"a", "b">>)>>) \o LastChunk, 0,
             <<HChunked>>, Flatten(<<(<<"t", "e", "s", "t">>), (<<"a", "b">>)>>))
\* neither Content-Length nor chunked
SampleNoLen ==
    MkSample("nolen", FALSE, HdrLine(sContentLanguage, <<"e", "n">>), <<"A", "B">>, 0,
             <<HLangEn>>, <<"A", "B">>)
\* "Content-Length: xx": the value is no unsigned integer
SampleBadLen ==
    MkSample("badlen", FALSE, HdrLine(sContentLength, <<"x", "x">>), <<"A", "B">>, 0,
             <<>>, <<>>)

SampleNames == {"Len2", "Len3", "LenOver", "Chunked", "NoLen", "BadLen"}

\* a malformed sample: only the wire bytes matter
MkRaw(bytes) ==
    [kind |-> "malformed", wellFormed |-> FALSE, bytes |-> bytes, hdrLen |-> Len(bytes),
     declared |-> 0, code |-> 0, headers |-> <<>>, body |-> <<>>]

\* "HTTP/1.1\r\n\r\n": a status line of fewer than 12 bytes
SampleShortStatus == MkRaw(<<"H", "T", "T", "P", "/", "1", ".", "1", CR, LF>> \o CRLF)
\* "HTTP/1.1 2x1 OK\r\n\r\n": the status code is no number
SampleBadCode ==
    MkRaw(<<"H", "T", "T", "P", "/", "1", ".", "1", " ", "2", "x", "1", " ", "O", "K", CR, LF>>
          \o CRLF)
\* a header line that is not valid UTF-8
SampleBadHeader == MkRaw(StatusLine201 \o <<"X", BadByte>> \o CRLF \o CRLF)
\* Transfer-Encoding: gzip
SampleGzip == MkRaw(StatusLine201 \o HdrLine(sTransferEncoding, sGzip) \o CRLF \o <<"A">>)
\* chunked, the first chunk record has a malformed hex length
SampleBadChunk ==
    MkRaw(StatusLine201 \o HdrLine(sTransferEncoding, sChunked) \o CRLF
          \o <<"z", CR, LF>> \o LastChunk)

MalformedNames == {"ShortStatus", "BadCode", "BadHeader", "Gzip", "BadChunk"}

\* a Transfer-Encoding header of a coding other than chunked
HEncoded(tag) == MkHeader("TransferEncoding", 0, tag, <<>>, <<>>)
\* Transfer-Encoding: gzip, Content-Length: 1
SampleGzipLen ==
    MkSample("encoded", TRUE,
             HdrLine(sTransferEncoding, sGzip) \o HdrLine(sContentLength, <<"1">>),
             <<"A">>, 1, <<HEncoded("Gzip"), HContentLength(1)>>, <<"A">>)
\* Transfer-Encoding: deflate, Content-Length: 2
SampleDeflateLen ==
    MkSample("encoded", TRUE,
             HdrLine(sTransferEncoding, sDeflate) \o HdrLine(sContentLength, <<"2">>),
             <<"A", "B">>, 2, <<HEncoded("Deflate"), HContentLength(2)>>, <<"A", "B">>)
\* Transfer-Encoding: gzip, chunked, no Content-Length
SampleGzipChunked ==
    MkSample("encoded", TRUE, HdrLine(sTransferEncoding, sGzipChunked),
             <<"A">>, 0, <<HEncoded("GzipChunked")>>, <<"A">>)
\* Transfer-Encoding: br (a coding the enumeration does not know)
SampleUnknownEnc ==
    MkSample("encoded", TRUE, HdrLine(sTransferEncoding, <<"b", "r">>),
             <<"A">>, 0, <<HEncoded("Unknown")>>, <<"A">>)

EncodedNames == {"GzipLen", "DeflateLen", "GzipChunked", "UnknownEnc"}

\* "X-A: b: c", a header the enumeration does not know whose value holds ": "
HUnknownColon == MkHeader("Unimplemented", 0, "", <<"X", "-", "A">>, <<"b", ":", " ", "c">>)
\* Content-Length: 1 and X-A: b: c
SampleHdrColon ==
    MkSample("headers", TRUE,
             HdrLine(sContentLength, <<"1">>)
                 \o HdrLine(<<"X", "-", "A">>, <<"b", ":", " ", "c">>),
             <<"A">>, 1, <<HContentLength(1), HUnknownColon>>, <<"A">>)
\* a chunk payload of 16 bytes
Payload16 == DecDigits \o HexLower
\* chunked, one chunk record of hex length "10" (two digits), then the last chunk
SampleChunk10 ==
    MkSample("hexchunk", TRUE, HdrLine(sTransferEncoding, sChunked),
             <<"1", "0">> \o CRLF \o Payload16 \o CRLF \o LastChunk, 0,
             <<HChunked>>, Payload16)

WireNames == {"HdrColon", "Chunk10"}

\* the sample of that name
SampleOf(n) ==
    CASE n = "Len2" -> SampleLen2
      [] n = "Len3" -> SampleLen3
      [] n = "LenOver" -> SampleLenOver
      [] n = "Chunked" -> SampleChunked
      [] n = "NoLen" -> SampleNoLen
      [] n = "BadLen" -> SampleBadLen
      [] n = "ShortStatus" -> SampleShortStatus
      [] n = "BadCode" -> SampleBadCode
      [] n = "BadHeader" -> SampleBadHeader
      [] n = "Gzip" -> SampleGzip
      [] n = "BadChunk" -> SampleBadChunk
      [] n = "GzipLen" -> SampleGzipLen
      [] n = "DeflateLen" -> SampleDeflateLen
      [] n = "GzipChunked" -> SampleGzipChunked
      [] n = "UnknownEnc" -> SampleUnknownEnc
      [] n = "HdrColon" -> SampleHdrColon
      [] n = "Chunk10" -> SampleChunk10

\* bound: the number of decode() calls of one DecoderSpec run
MaxCalls == 3

(***************************************************************************)
(* Connection actor: initial values (shared by all specifications)         *)
(***************************************************************************)
\* bound: the number of Client::execute calls
MaxEnv == 2

EnvIds == 1..MaxEnv

\* the start of a poll of HttpsConn:
\*   sig  a shutdown signal was queued when the poll began
\*   id   the envelope the poll resumed or took (0: none)
\*   out  "loop" (the poll went on to the for loop), "Pending",
\*        "Ready(Ok)", "Ready(Err)"; "none" before the first poll
PollRecord(sig, id, out) == [sig |-> sig, id |-> id, out |-> out]

\* a handshake() call that is not running; moved counts the bytes the
\* transport moved since the call began (kept beside the call's own locals)
NoCall ==
    [pc |-> "idle", write_len |-> 0, read_len |-> 0, write_block |-> FALSE,
     read_block |-> FALSE, flush_required |-> FALSE, eof |-> FALSE, moved |-> 0,
     pended |-> FALSE]

\* how a handshake() call returned: at the final match or on an early return,
\* with the value of eof and of is_handshaking() at that moment, whether
\* write_block || read_block held, the bytes the transport moved during the
\* call, and the call's <<read_len, write_len>>
RoundRecord(at, eof, handshaking, blocked, moved, pended, lens, res) ==
    [at |-> at, eof |-> eof, handshaking |-> handshaking, blocked |-> blocked,
     moved |-> moved, pended |-> pended, lens |-> lens, res |-> res]

\* Stream::create: a new ClientConnection is handshaking and has its first
\* flight (the ClientHello) queued for writing; the future is Handshaking(stream)
HandshakeInit ==
    /\ hsFuture = "Handshaking"
    /\ streamAt = "future"
    /\ conn = [handshaking |-> TRUE, sendable |-> 1]
    /\ hs = NoCall
    /\ hsRes = "none"
    /\ lastRound = RoundRecord("none", FALSE, TRUE, FALSE, 0, FALSE, <<0, 0>>, "none")
    /\ ioOps = 0

\* no poll_write or poll_read call is running
NoIo == [op |-> "none", pc |-> "idle", written |-> 0, start |-> 0, eofReads |-> 0]

\* what a poll_write or poll_read call returned: tag is "Pending", "Ok" (with
\* n) or "Err"; start is the number of bytes of the caller's buffer that had
\* been handed to the engine when the call began
IoResult(op, tag, n, start) == [op |-> op, tag |-> tag, n |-> n, start |-> start]

\* a Stream on which no poll_write or poll_read was called yet
IoInit ==
    /\ sio = NoIo
    /\ sres = IoResult("none", "none", 0, 0)
    /\ eng = [plain |-> 0, close_notify |-> FALSE, failed |-> FALSE]
    /\ wbuf = <<>>
    /\ handed = <<>>
    /\ tEof = FALSE

(***************************************************************************)
(* HeaderList and ReqBuilder (http/request.rs)                             *)
(* A header is a pair <<name, value>> of byte strings.  A slot of the      *)
(* MaybeUninit array is <<>> while uninitialised and <<pair>> once written.*)
(***************************************************************************)
HEADER_MAX == 24

\* the indexes of HeaderList::hdr
HdrSlots == 0 .. (HEADER_MAX - 1)

\* HeaderList::new
HeaderList_new ==
    [hdr |-> [i \in HdrSlots |-> <<>>], cursor |-> 0, ub |-> ""]

\* mutant of can_push: the list is taken for full one put() too late
can_push_OffByOne(h) == h.cursor > HEADER_MAX

\* HeaderList::can_push: true when the list is full
can_push(h) == h.cursor >= HEADER_MAX

\* HeaderList::put; get_unchecked_mut past the array is undefined behaviour,
\* recorded in ub
put(h, hdr) ==
    IF can_push(h)
    THEN h
    ELSE IF h.cursor \in HdrSlots
         THEN [h EXCEPT !.hdr[h.cursor] = <<hdr>>, !.cursor = @ + 1]
         ELSE [h EXCEPT !.ub = "write outside hdr", !.cursor = @ + 1]

\* HeaderList::header_slice: &hdr[0..cursor - 1]
header_slice(h) ==
    IF h.cursor = 0
    THEN <<>>
    ELSE [i \in 1 .. (h.cursor - 1) |-> h.hdr[i - 1][1]]

\* HeaderList::get
get(h, index) ==
    IF index >= h.cursor THEN <<>> ELSE <<h.hdr[index][1]>>

\* HdrListIter::next called until it returns None: the items yielded from pos on
RECURSIVE HdrListIter_next(_, _)
HdrListIter_next(h, pos) ==
    IF pos = h.cursor
    THEN <<>>
    ELSE LET item == get(h, pos)
         IN  IF item = <<>> THEN <<>> ELSE item \o HdrListIter_next(h, pos + 1)

\* HeaderList::iter, consumed to its end
HeaderList_iter(h) == HdrListIter_next(h, 0)

\* the while loop of Drop and the dealloc(0) after it: the slots destroyed
RECURSIVE drop_loop(_)
drop_loop(cursor) ==
    IF cursor # 0 THEN <<cursor>> \o drop_loop(cursor - 1) ELSE <<0>>

\* Drop for HeaderList
HeaderList_drop(h) ==
    IF h.cursor = 0 THEN <<>> ELSE drop_loop(h.cursor - 1)

\* Method::bytes
Methods == {"GET", "PUT", "POST", "HEAD", "PATCH", "OPTIONS", "CONNECT"}
Method_bytes(m) ==
    CASE m = "GET" -> <<"G", "E", "T", " ">>
      [] m = "PUT" -> <<"P", "U", "T", " ">>
      [] m = "POST" -> <<"P", "O", "S", "T", " ">>
      [] m = "HEAD" -> <<"H", "E", "A", "D", " ">>
      [] m = "PATCH" -> <<"P", "A", "T", "C", "H", " ">>
      [] m = "OPTIONS" -> <<"O", "P", "T", "I", "O", "N", "S", " ">>
      [] m = "CONNECT" -> <<"C", "O", "N", "N", "E", "C", "T", " ">>

\* ReqBuilder::new
ReqBuilder_new(method) ==
    [method |-> method, route |-> <<>>, headers |-> <<>>, extra_headers |-> <<>>,
     content |-> <<>>]

\* Client::get_header_slice on a Client whose headers are Some(h)
get_header_slice(h) == <<header_slice(h)>>

\* ReqBuilder::default_headers
default_headers(b, h) == [b EXCEPT !.headers = get_header_slice(h)]

\* ReqBuilder::set_route
set_route(b, route) == [b EXCEPT !.route = <<route>>]

\* ReqBuilder::set_content
set_content(b, content) == [b EXCEPT !.content = <<content>>]

\* the closure add_headers runs for each tuple: it returns early unless
\* can_push() is true
RECURSIVE add_each(_, _)
add_each(hdrlist, tuples) ==
    IF tuples = <<>>
    THEN hdrlist
    ELSE add_each(IF ~can_push(hdrlist) THEN hdrlist ELSE put(hdrlist, Head(tuples)),
                  Tail(tuples))

\* ReqBuilder::add_headers
add_headers(b, tuples) ==
    LET hdrlist == IF b.extra_headers = <<>> THEN HeaderList_new ELSE b.extra_headers[1]
    IN  [b EXCEPT !.extra_headers = <<add_each(hdrlist, tuples)>>]

\* the bytes construct() appends for a sequence of headers
RECURSIVE HeaderLines(_)
HeaderLines(hdrs) ==
    IF hdrs = <<>>
    THEN <<>>
    ELSE Head(hdrs)[1] \o <<":", " ">> \o Head(hdrs)[2] \o <<CR, LF>>
             \o HeaderLines(Tail(hdrs))

\* ReqBuilder::construct
construct(b) ==
    Method_bytes(b.method)
        \o (IF b.route = <<>> THEN <<"/">> ELSE b.route[1])
        \o <<" ", "H", "T", "T", "P", "/", "1", ".", "1", CR, LF>>
        \o (IF b.headers = <<>> THEN <<>> ELSE HeaderLines(b.headers[1]))
        \o (IF b.extra_headers = <<>> THEN <<>>
            ELSE HeaderLines(HeaderList_iter(b.extra_headers[1])))
        \o <<CR, LF>>
        \o (IF b.content = <<>> THEN <<>> ELSE b.content[1])

\* the decimal digits of n < 100
TwoDigits(n) ==
    IF n < 10 THEN <<DecDigits[n + 1]>>
    ELSE <<DecDigits[(n \div 10) + 1], DecDigits[(n % 10) + 1]>>

\* the header the n-th put() of the Client's map passes
HdrPair(n) == <<<<"X", "-">> \o TwoDigits(n), <<"v">> \o TwoDigits(n)>>

\* the n-th header passed to add_headers
ExtraPair(n) == <<<<"E", "-">> \o TwoDigits(n), <<"w">> \o TwoDigits(n)>>

\* what a read of the list returned; out is the sequence of pairs
\* (an Option for get)
ReadRecord(op, arg, k, out) == [op |-> op, arg |-> arg, k |-> k, out |-> out]

\* the inputs of a ReqBuilder and the bytes construct() made of them
RequestRecord(method, route, defaults, extras, content, out) ==
    [method |-> method, route |-> route, defaults |-> defaults, extras |-> extras,
     content |-> content, out |-> out]

\* an empty HeaderList and no request built
RequestInit ==
    /\ hlist = HeaderList_new
    /\ hputs = 0
    /\ hread = ReadRecord("none", 0, 0, <<>>)
    /\ hlive = TRUE
    /\ hfreed = <<>>
    /\ req = RequestRecord("none", <<>>, <<>>, <<>>, <<>>, <<>>)


ActorInit ==
    /\ mailbox = <<>>
    /\ nextId = 1
    /\ clientAlive = TRUE
    /\ shutdownSig = 0
    /\ chan = <<>>
    /\ envl = <<>>
    /\ pc = "idle"
    /\ iter = 0
    /\ apanic = ""
    /\ rx = [i \in EnvIds |-> "none"]
    /\ tx = [i \in EnvIds |-> "none"]
    /\ sends = <<>>
    /\ accepted = {}
    /\ resubmitted = {}
    /\ written = <<>>
    /\ peerQueue = <<>>
    /\ inbound = <<>>
    /\ peerClosed = FALSE
    /\ lastPoll = PollRecord(FALSE, 0, "none")
    /\ wakeDue = TRUE

(***************************************************************************)
(* DecoderSpec: one DataDecoder fed a sample in consecutive non-empty      *)
(* pieces, with get_resp() called at any time                              *)
(***************************************************************************)
HarnessInit ==
    /\ fed = 0
    /\ calls = 0
    /\ lastRes = "new"
    /\ everFinished = -1
    /\ got = <<>>
    /\ gotAt = -1
    /\ dpanic = ""

DecoderInit ==
    /\ decoder = DataDecoder_new
    /\ input \in SampleNames
    /\ HarnessInit
    /\ ActorInit
    /\ HandshakeInit
    /\ IoInit
    /\ RequestInit

\* the sample being fed
inp == SampleOf(input)

\* decoder.decode(&bytes[fed .. fed + k])
Feed(k) ==
    /\ dpanic = ""
    /\ calls < MaxCalls
    /\ fed + k <= Len(inp.bytes)
    /\ LET r == decode(decoder, Slice(inp.bytes, fed, fed + k))
       IN  /\ decoder' = r.d
           /\ lastRes' = r.res
           /\ dpanic' = IF IsPanic(r.res) THEN r.res ELSE ""
           /\ everFinished' = IF everFinished = -1 /\ finished(r.d) /\ ~IsPanic(r.res)
                              THEN fed + k ELSE everFinished
    /\ fed' = fed + k
    /\ calls' = calls + 1
    /\ UNCHANGED <<input, got, gotAt>>
    /\ UNCHANGED actVars
    /\ UNCHANGED hsVars
    /\ UNCHANGED ioVars
    /\ UNCHANGED reqVars

\* decoder.get_resp()
GetResp ==
    /\ dpanic = ""
    /\ LET g == get_resp(decoder)
       IN  /\ decoder' = g.d
           /\ got' = g.out
           /\ gotAt' = IF gotAt = -1 /\ g.out # <<>> THEN fed ELSE gotAt
           /\ dpanic' = IF IsPanic(g.res) THEN g.res ELSE ""
    /\ lastRes' = "get_resp"
    /\ UNCHANGED <<input, fed, calls, everFinished>>
    /\ UNCHANGED actVars
    /\ UNCHANGED hsVars
    /\ UNCHANGED ioVars
    /\ UNCHANGED reqVars

DecoderNext ==
    \/ \E k \in 1..Len(inp.bytes) : Feed(k)
    \/ GetResp

DecoderSpec == DecoderInit /\ [][DecoderNext]_vars

\* MalformedSpec: the same harness fed a malformed response
MalformedInit ==
    /\ decoder = DataDecoder_new
    /\ input \in MalformedNames
    /\ HarnessInit
    /\ ActorInit
    /\ HandshakeInit
    /\ IoInit
    /\ RequestInit

MalformedSpec == MalformedInit /\ [][DecoderNext]_vars

\* EncodedSpec: the same harness fed a response with a Transfer-Encoding other
\* than chunked
EncodedInit ==
    /\ decoder = DataDecoder_new
    /\ input \in EncodedNames
    /\ HarnessInit
    /\ ActorInit
    /\ HandshakeInit
    /\ IoInit
    /\ RequestInit

EncodedSpec == EncodedInit /\ [][DecoderNext]_vars

\* WireSpec: the same harness fed a response with a header value holding ": "
\* or with a chunk of a two-digit hex length
WireInit ==
    /\ decoder = DataDecoder_new
    /\ input \in WireNames
    /\ HarnessInit
    /\ ActorInit
    /\ HandshakeInit
    /\ IoInit
    /\ RequestInit

WireSpec == WireInit /\ [][DecoderNext]_vars

\* PlainSpec: DecoderSpec restricted to the samples whose body is neither
\* chunked nor compressed: without and with a Content-Length
PlainNames == {"NoLen", "Len2"}
PlainInit ==
    /\ decoder = DataDecoder_new
    /\ input \in PlainNames
    /\ HarnessInit
    /\ ActorInit
    /\ HandshakeInit
    /\ IoInit
    /\ RequestInit

PlainSpec == PlainInit /\ [][DecoderNext]_vars

(***************************************************************************)
(* Decoder claims (checked under DecoderSpec)                              *)
(***************************************************************************)
\* number of body bytes of the sample passed to decode() so far
bodyFed == IF fed > inp.hdrLen THEN fed - inp.hdrLen ELSE 0

\* the Option<Response> obtained by feeding the whole buffer in one decode() call
OneShot(bytes) == get_resp(decode(DataDecoder_new, bytes).d).out

\* the last operation was a get_resp() made after all pieces were fed, and no
\* Response had been handed out before it
FinalGet ==
    /\ lastRes = "get_resp"
    /\ fed = Len(inp.bytes)
    /\ (gotAt = -1 \/ (gotAt = fed /\ got # <<>>))

\* C1: fragmentation invariance. For a well-formed response fed in any
\* partition into consecutive non-empty pieces, no decode() call panics and the
\* Response obtained from get_resp() after the last piece is the Response
\* obtained by feeding the whole buffer in a single decode() call (same status
\* code, same ordered header list, same body).
C1_FragmentationInvariance ==
    inp.wellFormed =>
        /\ (lastRes # "get_resp" => dpanic = "")
        /\ (FinalGet => (dpanic = "" /\ got = OneShot(inp.bytes)))

\* C2: for a chunked body, however the bytes are split across decode() calls,
\* no decode() call panics and the body of the Response returned by get_resp()
\* after the last piece is the concatenation of the chunk payloads in order.
C2_ChunkedBodyIsConcatenation ==
    inp.kind = "chunked" =>
        /\ (lastRes # "get_resp" => dpanic = "")
        /\ (FinalGet => (dpanic = "" /\ got # <<>> /\ got[1].content = <<inp.body>>))

\* C3: for a non-chunked response declaring Content-Length N, after every
\* decode() call finished() is false while fewer than N body bytes have been
\* delivered and true once at least N body bytes have been delivered.
C3_FinishedExactlyAtContentLength ==
    (inp.kind = "length" /\ calls > 0 /\ dpanic = "") =>
        (finished(decoder) <=> bodyFed >= inp.declared)

\* C4: a Content-Length line whose value is not an unsigned integer moves the
\* decoder to Error once the header block has been decoded; finished() never
\* becomes true and get_resp() never returns a Response for that response.
C4_BadContentLengthIsError ==
    inp.kind = "badlen" =>
        /\ (fed >= inp.hdrLen => decoder.state = "Error")
        /\ ~finished(decoder)
        /\ got = <<>>

(***************************************************************************)
(* Connection actor HttpsConn and Client (src/src/http1/client.rs)         *)
(*                                                                         *)
(* pc: "idle"     between two polls of the HttpsConn future                *)
(*     "loop"     inside poll, at the head of `for _ in 0..8`              *)
(*     "done_ok"  poll returned Ready(Ok(()))                              *)
(*     "done_err" poll returned Ready(Err(_))                              *)
(*     "panicked" poll panicked                                            *)
(* rx[i]: "none" (not created), "open", "dropped" (by the caller)          *)
(* tx[i]: "none", "live" (in an Envelope), "sent" (consumed by send),      *)
(*        "gone" (dropped without a send)                                  *)
(***************************************************************************)
\* for _ in 0..8
LoopIters == 8

\* bound: request copies the peer holds unanswered (further copies are not answered)
MaxOwed == 2
\* bound: shutdown() calls
MaxShutdown == 1

\* Envelope { data, oneshot }: data is the serialized request of envelope id
Envelope(id, oneshot) == [id |-> id, oneshot |-> oneshot]

Range(f) == {f[i] : i \in DOMAIN f}

Alive == pc \in {"idle", "loop"}

\* the body the peer sends in answer to envelope id
BodyOf(id) == <<(<<"A", "B", "C", "D">>)[id]>>

\* the peer's answer to a request of envelope id:
\*   "length"   Content-Length: 1 and the body
\*   "chunked"  chunked, one chunk holding the body
\*   "badchunk" chunked, a chunk record with a malformed hex length
PeerResponse(id, variant) ==
    CASE variant = "length" ->
            StatusLine201 \o HdrLine(sContentLength, <<"1">>) \o CRLF \o BodyOf(id)
      [] variant = "chunked" ->
            StatusLine201 \o HdrLine(sTransferEncoding, sChunked) \o CRLF
                \o ChunkRecord(BodyOf(id)) \o LastChunk
      [] variant = "badchunk" ->
            StatusLine201 \o HdrLine(sTransferEncoding, sChunked) \o CRLF
                \o <<"z", CR, LF>> \o LastChunk

\* mutant of UseParked: the mailbox is read first whenever it holds an envelope
UseParked_MailboxFirst(slot, queue) == slot # <<>> /\ queue = <<>>

\* `self.chan.is_some()`: a parked envelope is resumed before the mailbox is read
UseParked(slot, queue) == slot # <<>>

\* Envelope::chan_fn(|ch| ch.send(value)) for a value of the given kind:
\* [envl, res, log]; res is "Ok" or the panic of expect("chan should be here")
chan_fn(e, kind, resp, rxs) ==
    IF ~e.oneshot
    THEN [envl |-> e, res |-> "Panic:chan should be here", log |-> <<>>]
    ELSE [envl |-> [e EXCEPT !.oneshot = FALSE], res |-> "Ok",
          log |-> <<[id |-> e.id, kind |-> kind, resp |-> resp,
                     recv |-> rxs[e.id] = "open"]>>]

\* poll's `if self.decoder.finished()` block once get_resp() returned g and
\* chan_fn(send(Ok(resp))) returned s2
after_send(s1, g, s2) ==
    IF IsPanic(s2.res) THEN [envl |-> s1.envl, d |-> g.d, res |-> s2.res, log |-> s1.log]
    ELSE [envl |-> s2.envl, d |-> g.d, res |-> "Ok", log |-> s1.log \o s2.log]

\* poll's `if self.decoder.finished()` block; r is decode's outcome, s1 the
\* outcome of the error branch before it, g what get_resp() returns (its
\* expect() passes whenever get_resp did not panic); resp.status() is called
\* before the send
after_get(r, s1, g, rxs) ==
    IF ~finished(r.d) THEN [envl |-> s1.envl, d |-> r.d, res |-> "Ok", log |-> s1.log]
    ELSE IF IsPanic(g.res) THEN [envl |-> s1.envl, d |-> g.d, res |-> g.res, log |-> s1.log]
    ELSE IF IsPanic(Response_status(g.out[1]))
         THEN [envl |-> s1.envl, d |-> g.d, res |-> Response_status(g.out[1]), log |-> s1.log]
    ELSE after_send(s1, g, chan_fn(s1.envl, "Ok", g.out, rxs))

\* poll's `if let Err(e) = self.decoder.decode(..)` branch with outcome s1,
\* then the rest of the arm
after_err(e, r, s1, rxs) ==
    IF IsPanic(s1.res) THEN [envl |-> e, d |-> r.d, res |-> s1.res, log |-> <<>>]
    ELSE after_get(r, s1, get_resp(r.d), rxs)

\* the arm once decode returned r
after_decode(e, r, rxs) ==
    IF IsPanic(r.res) THEN [envl |-> e, d |-> r.d, res |-> r.res, log |-> <<>>]
    ELSE after_err(e, r,
                   IF IsErr(r.res) THEN chan_fn(e, "Err", <<>>, rxs)
                   ELSE [envl |-> e, res |-> "Ok", log |-> <<>>],
                   rxs)

\* the Poll::Ready(Ok(size)) arm of poll's match on poll_read, data = buf[0..size]:
\* [envl, d, res, log]
on_read(e, dec, data, rxs) == after_decode(e, decode(dec, data), rxs)

\* mutant of DropOwned: the ending task keeps the senders it owns
DropOwned_Keep(t, held) == t

\* the oneshot senders the task owns (local envl, self.chan, queued in self.recv)
\* are dropped when the task ends
DropOwned(t, held) ==
    [i \in EnvIds |-> IF t[i] = "live" /\ i \in held THEN "gone" ELSE t[i]]

HeldIds(slot, local, queue) ==
    {x.id : x \in Range(slot)} \cup {x.id : x \in Range(local)} \cup Range(queue)

\* the task ends (Ready or panic): everything it owns is dropped
Terminate(newpc, why, tx1) ==
    /\ pc' = newpc
    /\ apanic' = why
    /\ tx' = DropOwned(tx1, HeldIds(chan, envl, mailbox))
    /\ mailbox' = <<>>
    /\ chan' = <<>>
    /\ envl' = <<>>
    /\ iter' = 0

\* HttpsConn::poll up to the head of the for loop does not use `cx`: the poll
\* consumes the wake-up that caused it and no Waker is handed to the mailbox
poll_start_registers == FALSE

\* Client::execute's `self.sender.send(envl)` on a std::sync::mpsc channel:
\* the channel holds no Waker, the send wakes no task
mpsc_send_wakes == FALSE

\* HttpsConn::poll up to the head of the for loop: resume the parked envelope or
\* take one from the mailbox (Empty: Pending; Disconnected: Ready(Err)), then
\* look at the shutdown channel
PollStart ==
    /\ pc = "idle"
    /\ LET parked == UseParked(chan, mailbox)
           e == IF parked THEN chan[1] ELSE Envelope(Head(mailbox), TRUE)
           sig == shutdownSig > 0
       IN  IF ~parked /\ mailbox = <<>>
           THEN IF clientAlive
                THEN /\ lastPoll' = PollRecord(sig, 0, "Pending")
                     /\ UNCHANGED <<pc, apanic, tx, mailbox, chan, envl, iter, shutdownSig>>
                ELSE /\ lastPoll' = PollRecord(sig, 0, "Ready(Err)")
                     /\ Terminate("done_err", "", tx)
                     /\ UNCHANGED shutdownSig
           ELSE IF sig
                THEN /\ lastPoll' = PollRecord(sig, e.id, "Ready(Ok)")
                     /\ Terminate("done_ok", "", DropOwned(tx, {e.id}))
                     /\ shutdownSig' = shutdownSig - 1
                ELSE /\ lastPoll' = PollRecord(sig, e.id, "loop")
                     /\ pc' = "loop"
                     /\ iter' = 0
                     /\ envl' = <<e>>
                     /\ chan' = IF parked THEN <<>> ELSE chan
                     /\ mailbox' = IF parked THEN mailbox ELSE Tail(mailbox)
                     /\ UNCHANGED <<apanic, tx, shutdownSig>>
    /\ wakeDue' = poll_start_registers
    /\ UNCHANGED <<nextId, clientAlive, rx, sends, accepted, resubmitted, written,
                   peerQueue, inbound, peerClosed>>
    /\ UNCHANGED decVars
    /\ UNCHANGED hsVars
    /\ UNCHANGED ioVars
    /\ UNCHANGED reqVars

\* one iteration of `for _ in 0..8`: poll_write(&envl.data) with result w
\* (ignored), poll_flush (ignored), poll_read with result r; for
\* Ready(Ok(size)) size is k
LoopIter(w, r, k) ==
    /\ pc = "loop"
    /\ iter < LoopIters
    /\ LET e == envl[1]
       IN  /\ written' = IF e.id \in Range(written) THEN written ELSE Append(written, e.id)
           /\ resubmitted' = IF e.id \in accepted THEN resubmitted \cup {e.id} ELSE resubmitted
           /\ accepted' = IF w = "Ok" THEN accepted \cup {e.id} ELSE accepted
           /\ peerQueue' = IF w # "Err" /\ Len(peerQueue) < MaxOwed
                           THEN Append(peerQueue, e.id) ELSE peerQueue
    /\ CASE r = "Err" ->
              /\ Terminate("done_err", "", tx)
              /\ UNCHANGED <<decoder, sends, inbound>>
         [] r = "Pending" ->
              /\ iter' = iter + 1
              /\ UNCHANGED <<pc, apanic, tx, mailbox, chan, envl, decoder, sends, inbound>>
         [] r = "Ok" ->
              /\ k <= Len(inbound)
              /\ k = 0 => peerClosed
              /\ inbound' = SliceFrom(inbound, k)
              /\ \E o \in {on_read(envl[1], decoder, Slice(inbound, 0, k), rx)} :
                   \E tx1 \in {[i \in EnvIds |->
                                  IF \E j \in 1..Len(o.log) : o.log[j].id = i
                                  THEN "sent" ELSE tx[i]]} :
                     /\ decoder' = o.d
                     /\ sends' = sends \o o.log
                     /\ IF IsPanic(o.res)
                        THEN Terminate("panicked", o.res, tx1)
                        ELSE /\ envl' = <<o.envl>>
                             /\ tx' = tx1
                             /\ iter' = iter + 1
                             /\ UNCHANGED <<pc, apanic, mailbox, chan>>
    /\ UNCHANGED <<nextId, clientAlive, shutdownSig, rx, peerClosed, lastPoll, wakeDue>>
    /\ UNCHANGED <<input, fed, calls, lastRes, everFinished, got, gotAt, dpanic>>
    /\ UNCHANGED hsVars
    /\ UNCHANGED ioVars
    /\ UNCHANGED reqVars

\* after the loop: self.chan.replace(envl); Poll::Pending. The loop passed
\* `cx` to the transport, whose wake-ups are not restricted here
Park ==
    /\ pc = "loop"
    /\ iter = LoopIters
    /\ chan' = envl
    /\ envl' = <<>>
    /\ pc' = "idle"
    /\ iter' = 0
    /\ wakeDue' = TRUE
    /\ UNCHANGED <<mailbox, nextId, clientAlive, shutdownSig, apanic, rx, tx, sends,
                   accepted, resubmitted, written, peerQueue, inbound, peerClosed>>
    /\ UNCHANGED lastPoll
    /\ UNCHANGED decVars
    /\ UNCHANGED hsVars
    /\ UNCHANGED ioVars
    /\ UNCHANGED reqVars

\* Client::execute: a new envelope with a fresh oneshot channel is sent to the
\* mailbox (the send fails, and the envelope is dropped, once the task ended)
Execute ==
    /\ clientAlive
    /\ nextId <= MaxEnv
    /\ rx' = [rx EXCEPT ![nextId] = "open"]
    /\ tx' = [tx EXCEPT ![nextId] = IF Alive THEN "live" ELSE "gone"]
    /\ mailbox' = IF Alive THEN Append(mailbox, nextId) ELSE mailbox
    /\ nextId' = nextId + 1
    /\ wakeDue' = (wakeDue \/ mpsc_send_wakes)
    /\ UNCHANGED <<clientAlive, shutdownSig, chan, envl, pc, iter, apanic, sends,
                   accepted, resubmitted, written, peerQueue, inbound, peerClosed>>
    /\ UNCHANGED lastPoll
    /\ UNCHANGED decVars
    /\ UNCHANGED hsVars
    /\ UNCHANGED ioVars
    /\ UNCHANGED reqVars

\* the caller drops the oneshot::Receiver of envelope i before a result arrived
DropReceiver(i) ==
    /\ rx[i] = "open"
    /\ tx[i] = "live"
    /\ rx' = [rx EXCEPT ![i] = "dropped"]
    /\ UNCHANGED <<mailbox, nextId, clientAlive, shutdownSig, chan, envl, pc, iter, apanic,
                   tx, sends, accepted, resubmitted, written, peerQueue, inbound, peerClosed>>
    /\ UNCHANGED <<lastPoll, wakeDue>>
    /\ UNCHANGED decVars
    /\ UNCHANGED hsVars
    /\ UNCHANGED ioVars
    /\ UNCHANGED reqVars

\* Client::shutdown
ShutdownCall ==
    /\ clientAlive
    /\ Alive
    /\ shutdownSig < MaxShutdown
    /\ shutdownSig' = shutdownSig + 1
    /\ UNCHANGED <<mailbox, nextId, clientAlive, chan, envl, pc, iter, apanic, rx, tx, sends,
                   accepted, resubmitted, written, peerQueue, inbound, peerClosed>>
    /\ UNCHANGED <<lastPoll, wakeDue>>
    /\ UNCHANGED decVars
    /\ UNCHANGED hsVars
    /\ UNCHANGED ioVars
    /\ UNCHANGED reqVars

\* the Client is dropped: both mpsc senders disconnect
DropClient ==
    /\ clientAlive
    /\ clientAlive' = FALSE
    /\ UNCHANGED <<mailbox, nextId, shutdownSig, chan, envl, pc, iter, apanic, rx, tx, sends,
                   accepted, resubmitted, written, peerQueue, inbound, peerClosed>>
    /\ UNCHANGED <<lastPoll, wakeDue>>
    /\ UNCHANGED decVars
    /\ UNCHANGED hsVars
    /\ UNCHANGED ioVars
    /\ UNCHANGED reqVars

\* the peer answers the oldest request copy it holds
PeerAnswer(variant) ==
    /\ peerQueue # <<>>
    /\ inbound = <<>>
    /\ ~peerClosed
    /\ inbound' = PeerResponse(Head(peerQueue), variant)
    /\ peerQueue' = Tail(peerQueue)
    /\ UNCHANGED <<mailbox, nextId, clientAlive, shutdownSig, chan, envl, pc, iter, apanic,
                   rx, tx, sends, accepted, resubmitted, written, peerClosed>>
    /\ UNCHANGED <<lastPoll, wakeDue>>
    /\ UNCHANGED decVars
    /\ UNCHANGED hsVars
    /\ UNCHANGED ioVars
    /\ UNCHANGED reqVars

\* the peer closes the connection
PeerClose ==
    /\ ~peerClosed
    /\ peerClosed' = TRUE
    /\ UNCHANGED <<mailbox, nextId, clientAlive, shutdownSig, chan, envl, pc, iter, apanic,
                   rx, tx, sends, accepted, resubmitted, written, peerQueue, inbound>>
    /\ UNCHANGED <<lastPoll, wakeDue>>
    /\ UNCHANGED decVars
    /\ UNCHANGED hsVars
    /\ UNCHANGED ioVars
    /\ UNCHANGED reqVars

ActorSpecInit ==
    /\ decoder = DataDecoder_new
    /\ input = "Len2"
    /\ HarnessInit
    /\ ActorInit
    /\ HandshakeInit
    /\ IoInit
    /\ RequestInit

\* bound: the largest size of a partial read (a read may also return all
\* available bytes)
MaxPartial == 1

\* the sizes poll_read may return for Ready(Ok(size))
ReadSizes == (0..MaxPartial) \cup {Len(inbound)}

ActorNext ==
    \/ PollStart
    \/ \E w \in {"Ok", "Pending", "Err"}, r \in {"Ok", "Pending", "Err"}, k \in ReadSizes :
           LoopIter(w, r, k)
    \/ Park
    \/ Execute
    \/ \E i \in EnvIds : DropReceiver(i)
    \/ ShutdownCall
    \/ DropClient
    \/ \E v \in {"length", "chunked", "badchunk"} : PeerAnswer(v)
    \/ PeerClose

\* ActorSpec: the actor with an arbitrary transport and peer
ActorSpec == ActorSpecInit /\ [][ActorNext]_vars

\* FairActorSpec: the transport is always ready (poll_write returns Ready(Ok),
\* poll_read returns every available byte, or Pending when there is none), the
\* peer answers every request copy with a well-formed response, nobody shuts
\* the connection down, and every party that can act eventually does.
FairLoopIter ==
    LoopIter("Ok", IF inbound # <<>> THEN "Ok" ELSE "Pending", Len(inbound))

FairPeerAnswer == \E v \in {"length", "chunked"} : PeerAnswer(v)

FairNext ==
    \/ PollStart
    \/ FairLoopIter
    \/ Park
    \/ Execute
    \/ \E i \in EnvIds : DropReceiver(i)
    \/ FairPeerAnswer

\* ENABLED <<FairLoopIter>>_vars: an iteration can always be taken inside the
\* loop, and it changes iter or pc
LoopIterEnabled == pc = "loop" /\ iter < LoopIters

\* weak fairness of FairLoopIter, WF_vars(FairLoopIter), with its enabling
\* condition written out
FairLoop == []<>(~LoopIterEnabled) \/ []<><<FairLoopIter>>_vars

FairActorSpec ==
    /\ ActorSpecInit
    /\ [][FairNext]_vars
    /\ WF_vars(PollStart)
    /\ FairLoop
    /\ WF_vars(Park)
    /\ WF_vars(FairPeerAnswer)

(***************************************************************************)
(* Actor claims                                                            *)
(***************************************************************************)
\* a result (Ok(Response) or Err) has been sent on envelope i's channel
Resolved(i) == \E j \in 1..Len(sends) : sends[j].id = i

\* the results sent so far are those of envelopes 1, 2, ... in mailbox order,
\* each the Response the peer sent in answer to that envelope
DeliveredInOrder ==
    \A j \in 1..Len(sends) :
        /\ sends[j].id = j
        /\ sends[j].kind = "Ok"
        /\ sends[j].resp # <<>>
        /\ sends[j].resp[1].code = 201
        /\ sends[j].resp[1].content = <<BodyOf(j)>>

\* C5: FIFO delivery. For every sequence of execute() calls the results are
\* delivered on the completion channels in mailbox order, each being the
\* Response the peer sent in answer to that envelope, and no envelope loses
\* its completion channel without a result (transport ready, peer answering
\* every request with a well-formed response, no shutdown).
C5_FifoDelivery ==
    /\ DeliveredInOrder
    /\ \A i \in EnvIds : tx[i] # "gone"

\* C6: with a peer that answers every request with a well-formed response and
\* a fairly scheduled actor, every enqueued envelope eventually has a result
\* sent on its completion channel (the actor releases the answered envelope and
\* takes the next one from the mailbox).
C6_EveryEnvelopeAnswered ==
    \A i \in EnvIds : (tx[i] = "live") ~> (tx[i] = "sent")

\* C7: once a send on a completion channel has failed because the caller had
\* dropped the receiver, the actor is still running (it neither panicked nor
\* terminated), transport and peer being well-behaved.
C7_DroppedReceiverHarmless ==
    (\E j \in 1..Len(sends) : ~sends[j].recv) => Alive

\* C8: one request in flight at a time. An envelope's request has been passed
\* to poll_write only if every envelope enqueued before it has had its result
\* (the Response of the Finished decoder, or an error) delivered.
C8_OneRequestInFlight ==
    \A j \in Range(written) : \A i \in 1..(j - 1) : Resolved(i)

\* C8 witness: the actor is in a resumed turn for envelope 1, whose request was
\* written in an earlier turn and is still unanswered, while envelope 2 waits
\* in the mailbox and has not been written.
C8_Witness ==
    /\ pc = "loop"
    /\ iter = 0
    /\ envl # <<>> /\ envl[1].id = 1
    /\ 1 \in Range(written)
    /\ ~Resolved(1)
    /\ 2 \in Range(mailbox)
    /\ 2 \notin Range(written)

\* C9: after poll_write has accepted (Ready(Ok)) the request bytes of an
\* envelope, those bytes are never passed to poll_write again.
C9_RequestSubmittedOnce == resubmitted = {}

\* C10: the actor attempts at most one send per envelope, and the
\* expect("chan should be here") of chan_fn never fails.
C10_ChannelUsedOnce ==
    /\ apanic # "Panic:chan should be here"
    /\ \A i \in EnvIds : Cardinality({j \in 1..Len(sends) : sends[j].id = i}) <= 1
\* C11: the shutdown signal is honoured on every actor turn. A poll that began
\* with a shutdown signal queued returned Ready(Ok(())), whether an envelope was
\* parked, waiting in the mailbox, or the mailbox was empty.
C11_ShutdownHonouredEveryTurn == lastPoll.sig => lastPoll.out = "Ready(Ok)"

\* C12: when a poll ends the task on shutdown, the envelope it held has its
\* completion channel dropped without a value (a sender still live is gone
\* afterwards), and from that poll on nothing is sent on any channel.
C12_ShutdownDropsInFlight ==
    [][(pc' = "done_ok") =>
          /\ sends' = sends
          /\ \A i \in EnvIds :
                (i = lastPoll'.id /\ tx[i] = "live") => tx'[i] = "gone"]_vars

\* C12 witness: the task ended on shutdown while holding envelope 1, whose
\* request had been written and not answered; its sender is gone and the
\* caller's receiver is still open.
C12_Witness ==
    /\ pc = "done_ok"
    /\ lastPoll.id = 1
    /\ 1 \in Range(written)
    /\ ~Resolved(1)
    /\ tx[1] = "gone"
    /\ rx[1] = "open"

\* C13: no bytes received from the peer make the decoder panic: every
\* decode() and get_resp() call on a malformed response returns normally, with
\* Ok or a typed error.
C13_NoPanicOnPeerInput == dpanic = ""

\* C14: whenever decode() returned an error, the decoder's phase after the call
\* is Error.
C14_ErrorReturnMeansErrorPhase == IsErr(lastRes) => decoder.state = "Error"

\* C15: Error is terminal. A step taken in phase Error leaves the phase Error
\* and the content buffer unchanged (so finished() never becomes true).
C15_ErrorIsTerminal ==
    [][decoder.state = "Error" =>
          (decoder'.state = "Error" /\ decoder'.content = decoder.content)]_vars

\* C16: after get_resp() has returned a Response the decoder is in the state
\* of a freshly created one (phase Headers, no encoding, no content length,
\* empty content buffer, no Response in progress).
C16_ResetAfterExtraction ==
    (lastRes = "get_resp" /\ got # <<>>) => decoder = DataDecoder_new

(***************************************************************************)
(* TLS stream: the Handshake Future Ready<IO> and Stream::handshake        *)
(* (src/src/stream.rs)                                                     *)
(*                                                                         *)
(* The TLS engine (rustls ClientConnection) and the transport are the      *)
(* environment. The engine is [handshaking, sendable]: sendable counts the *)
(* TLS data queued for writing, in flights; lengths read and written are   *)
(* counted in the same unit. What the engine does with received bytes is   *)
(* its own choice (EngineAfter); every transport operation may return      *)
(* Ready(Ok(n)), Pending or Ready(Err).                                    *)
(* hs.pc: "idle"  no handshake() call is running                           *)
(*        "write" at `while self.conn.wants_write()`                       *)
(*        "flush" at `if flush_required`                                   *)
(*        "read"  at `while self.conn.wants_read() && !eof`                *)
(*        "match" at the final `return match (eof, is_handshaking())`      *)
(***************************************************************************)
\* bound: transport operations of one run
MaxOps == 6
\* bound: flights the engine has queued for writing
MaxSendable == 2
\* bound: the largest length one transport read returns
MaxRead == 2

\* ClientConnection::is_handshaking
is_handshaking(c) == c.handshaking
\* ClientConnection::wants_write: TLS data is queued for writing
wants_write(c) == c.sendable > 0
\* ClientConnection::wants_read, no plaintext being buffered before the
\* handshake is over: while handshaking the engine does not read before its
\* queued data is written
wants_read(c) == ~c.handshaking \/ c.sendable = 0

\* the engine after process_new_packets() accepted new bytes: nothing new
\* (an incomplete message), a further flight queued, the handshake complete
EngineAfter(c) ==
    IF ~c.handshaking THEN {c}
    ELSE {c,
          [c EXCEPT !.sendable = Min(@ + 1, MaxSendable)],
          [c EXCEPT !.handshaking = FALSE],
          [c EXCEPT !.handshaking = FALSE, !.sendable = Min(@ + 1, MaxSendable)]}

\* the locals of a fresh handshake() call, at the top of its loop
NewCall == [NoCall EXCEPT !.pc = "write"]
\* mutant of NewRound: write_len and read_len are counted per round
NewRound_PerRound(h) ==
    [h EXCEPT !.pc = "write", !.write_block = FALSE, !.read_block = FALSE,
              !.flush_required = FALSE, !.eof = FALSE,
              !.write_len = 0, !.read_len = 0]

\* `continue`: the next round of the loop; write_len and read_len are kept
NewRound(h) ==
    [h EXCEPT !.pc = "write", !.write_block = FALSE, !.read_block = FALSE,
              !.flush_required = FALSE, !.eof = FALSE]

\* mutant of handshake_match: end-of-file is not looked at
handshake_match_NoEof(eof, handshaking, blocked, progress) ==
    CASE ~handshaking -> "Ready(Ok)"
      [] handshaking /\ blocked -> IF progress THEN "Ready(Ok)" ELSE "Pending"
      [] OTHER -> "continue"

\* the final `match (eof, self.conn.is_handshaking())` of handshake();
\* blocked is write_block || read_block, progress is read_len != 0 || write_len != 0
handshake_match(eof, handshaking, blocked, progress) ==
    CASE eof /\ handshaking -> "Ready(Err)"
      [] ~handshaking -> "Ready(Ok)"
      [] handshaking /\ blocked -> IF progress THEN "Ready(Ok)" ELSE "Pending"
      [] OTHER -> "continue"

\* mutant of PolledAfterCompletion: a completed future is polled like a new one
PolledAfterCompletion_Never(r) == FALSE

\* Ready::poll's `Ready::Done => panic!("polled after completion")`
PolledAfterCompletion(r) == r = "Done"

\* mutant of ReadyLoopContinues: the first Ready(Ok) of handshake() ends the poll
ReadyLoopContinues_Once(c) == FALSE

\* Ready::poll's `while stream.conn.is_handshaking()`
ReadyLoopContinues(c) == is_handshaking(c)

\* mutant of ReadyAfterPending: the stream is not put back
ReadyAfterPending_Lost == "Done"

\* Ready::poll's Pending arm: mem::replace(me, Ready::Handshaking(stream))
ReadyAfterPending == "Handshaking"

\* handshake() returns res (at the final match or early), the engine being c;
\* Ready::poll goes on from there: next handshake() call, or its own return
HsReturn(res, at, c, eof) ==
    /\ lastRound' = RoundRecord(at, eof, is_handshaking(c),
                                hs.write_block \/ hs.read_block, hs.moved, hs.pended,
                                <<hs.read_len, hs.write_len>>, res)
    /\ CASE res = "Ready(Ok)" ->
              IF ReadyLoopContinues(c)
              THEN /\ hs' = NewCall
                   /\ UNCHANGED <<hsFuture, streamAt, hsRes>>
              ELSE /\ hs' = NoCall
                   /\ hsRes' = "Ready(Ok)"
                   /\ streamAt' = "caller"
                   /\ UNCHANGED hsFuture
         [] res = "Ready(Err)" ->
              /\ hs' = NoCall
              /\ hsRes' = "Ready(Err)"
              /\ streamAt' = "dropped"
              /\ UNCHANGED hsFuture
         [] res = "Pending" ->
              /\ hs' = NoCall
              /\ hsRes' = "Pending"
              /\ hsFuture' = ReadyAfterPending
              /\ streamAt' = "future"

\* Ready::poll up to its first handshake() call
ReadyPoll ==
    /\ hs.pc = "idle"
    /\ hsRes # "Panic:polled after completion"
    /\ IF PolledAfterCompletion(hsFuture)
       THEN /\ hsRes' = "Panic:polled after completion"
            /\ UNCHANGED <<hsFuture, streamAt, hs>>
       ELSE /\ hsFuture' = "Done"
            /\ IF ReadyLoopContinues(conn)
               THEN /\ hs' = NewCall
                    /\ streamAt' = "poll"
                    /\ UNCHANGED hsRes
               ELSE /\ hsRes' = "Ready(Ok)"
                    /\ streamAt' = "caller"
                    /\ UNCHANGED hs
    /\ UNCHANGED <<conn, lastRound, ioOps>>
    /\ UNCHANGED decVars
    /\ UNCHANGED actVars
    /\ UNCHANGED ioVars
    /\ UNCHANGED reqVars

\* handshake(): one pass of `while self.conn.wants_write()`, io_write returning w
\* (n flights written for Ready(Ok(n)))
HsWrite(w, n) ==
    /\ hs.pc = "write"
    /\ IF ~wants_write(conn)
       THEN /\ hs' = [hs EXCEPT !.pc = "flush"]
            /\ UNCHANGED <<hsFuture, streamAt, conn, hsRes, lastRound, ioOps>>
       ELSE /\ ioOps < MaxOps
            /\ ioOps' = ioOps + 1
            /\ CASE w = "Err" ->
                      /\ HsReturn("Ready(Err)", "early", conn, hs.eof)
                      /\ UNCHANGED conn
                 [] w = "Pending" ->
                      /\ hs' = [hs EXCEPT !.pc = "flush", !.write_block = TRUE,
                                          !.pended = TRUE]
                      /\ UNCHANGED <<hsFuture, streamAt, conn, hsRes, lastRound>>
                 [] w = "Ok" ->
                      /\ n <= conn.sendable
                      /\ IF n = 0
                         THEN /\ HsReturn("Ready(Err)", "early", conn, hs.eof)
                              /\ UNCHANGED conn
                         ELSE /\ conn' = [conn EXCEPT !.sendable = @ - n]
                              /\ hs' = [hs EXCEPT !.write_len = @ + n,
                                                  !.flush_required = TRUE,
                                                  !.moved = @ + n]
                              /\ UNCHANGED <<hsFuture, streamAt, hsRes, lastRound>>
    /\ UNCHANGED decVars
    /\ UNCHANGED actVars
    /\ UNCHANGED ioVars
    /\ UNCHANGED reqVars

\* handshake(): `if flush_required`, poll_flush returning f
HsFlush(f) ==
    /\ hs.pc = "flush"
    /\ IF ~hs.flush_required
       THEN /\ hs' = [hs EXCEPT !.pc = "read"]
            /\ UNCHANGED <<hsFuture, streamAt, hsRes, lastRound, ioOps>>
       ELSE /\ ioOps < MaxOps
            /\ ioOps' = ioOps + 1
            /\ CASE f = "Err" -> HsReturn("Ready(Err)", "early", conn, hs.eof)
                 [] f = "Pending" ->
                      /\ hs' = [hs EXCEPT !.pc = "read", !.write_block = TRUE,
                                          !.pended = TRUE]
                      /\ UNCHANGED <<hsFuture, streamAt, hsRes, lastRound>>
                 [] f = "Ok" ->
                      /\ hs' = [hs EXCEPT !.pc = "read"]
                      /\ UNCHANGED <<hsFuture, streamAt, hsRes, lastRound>>
    /\ UNCHANGED conn
    /\ UNCHANGED decVars
    /\ UNCHANGED actVars
    /\ UNCHANGED ioVars
    /\ UNCHANGED reqVars

\* mutant of read_zero: a read of zero bytes is taken for a blocked read
read_zero_Blocks(h) == [h EXCEPT !.pc = "match", !.read_block = TRUE]

\* the read loop's arm `Poll::Ready(Ok(0)) => eof = true`
read_zero(h) == [h EXCEPT !.eof = TRUE]

\* handshake(): one pass of `while self.conn.wants_read() && !eof`; io_read's
\* read_tls returns r (n for Ready(Ok(n)), 0 being end-of-file), and
\* process_new_packets returns p
HsRead(r, n, p) ==
    /\ hs.pc = "read"
    /\ IF ~(wants_read(conn) /\ ~hs.eof)
       THEN /\ hs' = [hs EXCEPT !.pc = "match"]
            /\ UNCHANGED <<hsFuture, streamAt, conn, hsRes, lastRound, ioOps>>
       ELSE /\ ioOps < MaxOps
            /\ CASE r = "Err" ->
                      /\ ioOps' = ioOps + 1
                      /\ HsReturn("Ready(Err)", "early", conn, hs.eof)
                      /\ UNCHANGED conn
                 [] r = "Pending" ->
                      /\ ioOps' = ioOps + 1
                      /\ hs' = [hs EXCEPT !.pc = "match", !.read_block = TRUE,
                                          !.pended = TRUE]
                      /\ UNCHANGED <<hsFuture, streamAt, conn, hsRes, lastRound>>
                 [] r = "Ok" /\ p = "Err" ->
                      \* the last-ditch write_tls, then Err(InvalidData)
                      /\ n > 0
                      /\ ioOps' = ioOps + (IF wants_write(conn) THEN 2 ELSE 1)
                      /\ \E k \in 0..conn.sendable :
                            /\ conn' = [conn EXCEPT !.sendable = k]
                            /\ HsReturn("Ready(Err)", "early", conn', hs.eof)
                 [] r = "Ok" /\ p = "Ok" ->
                      /\ ioOps' = ioOps + 1
                      /\ UNCHANGED <<hsFuture, streamAt, hsRes, lastRound>>
                      /\ IF n = 0
                         THEN /\ hs' = read_zero(hs)
                              /\ UNCHANGED conn
                         ELSE /\ hs' = [hs EXCEPT !.read_len = @ + n,
                                                  !.moved = @ + n]
                              /\ conn' \in EngineAfter(conn)
    /\ UNCHANGED decVars
    /\ UNCHANGED actVars
    /\ UNCHANGED ioVars
    /\ UNCHANGED reqVars

\* handshake(): the final match; `continue` starts the next round
HsMatch ==
    /\ hs.pc = "match"
    /\ IF handshake_match(hs.eof, is_handshaking(conn), hs.write_block \/ hs.read_block,
                          hs.read_len # 0 \/ hs.write_len # 0) = "continue"
       THEN /\ hs' = NewRound(hs)
            /\ UNCHANGED <<hsFuture, streamAt, hsRes, lastRound>>
       ELSE HsReturn(handshake_match(hs.eof, is_handshaking(conn),
                                     hs.write_block \/ hs.read_block,
                                     hs.read_len # 0 \/ hs.write_len # 0),
                     "match", conn, hs.eof)
    /\ UNCHANGED <<conn, ioOps>>
    /\ UNCHANGED decVars
    /\ UNCHANGED actVars
    /\ UNCHANGED ioVars
    /\ UNCHANGED reqVars

HandshakeSpecInit ==
    /\ decoder = DataDecoder_new
    /\ input = "Len2"
    /\ HarnessInit
    /\ ActorInit
    /\ HandshakeInit
    /\ IoInit
    /\ RequestInit

HandshakeNext ==
    \/ ReadyPoll
    \/ \E w \in {"Ok", "Pending", "Err"}, n \in 0..MaxSendable : HsWrite(w, n)
    \/ \E f \in {"Ok", "Pending", "Err"} : HsFlush(f)
    \/ \E r \in {"Ok", "Pending", "Err"}, n \in 0..MaxRead, p \in {"Ok", "Err"} :
           HsRead(r, n, p)
    \/ HsMatch

\* HandshakeSpec: the Handshake Future polled again and again, with an
\* arbitrary transport and engine
HandshakeSpec == HandshakeSpecInit /\ [][HandshakeNext]_vars

\* the executor polls the Future when it is spawned and after that only when
\* its waker was called; the waker is the one a transport operation that
\* returned Pending was given, and a transport that becomes ready calls it
WokenPoll ==
    /\ \/ hsRes = "none"
       \/ hsRes = "Pending" /\ lastRound.pended
    /\ ReadyPoll

FairHandshakeNext ==
    \/ WokenPoll
    \/ \E w \in {"Ok", "Pending", "Err"}, n \in 0..MaxSendable : HsWrite(w, n)
    \/ \E f \in {"Ok", "Pending", "Err"} : HsFlush(f)
    \/ \E r \in {"Ok", "Pending", "Err"}, n \in 0..MaxRead, p \in {"Ok", "Err"} :
           HsRead(r, n, p)
    \/ HsMatch

\* FairHandshakeSpec: the Handshake Future on an executor that polls a woken
\* task, over a transport whose operations return
FairHandshakeSpec ==
    /\ HandshakeSpecInit
    /\ [][FairHandshakeNext]_vars
    /\ WF_vars(FairHandshakeNext)

(***************************************************************************)
(* Handshake claims (checked under HandshakeSpec)                          *)
(***************************************************************************)
\* C17: the Handshake Future fails fast after completion. Once the future is
\* Done and no poll is running (a poll returned Ready(Ok) or Ready(Err)), the
\* next step is a poll that panics with "polled after completion" and touches
\* neither the transport nor the engine.
C17_FailFastAfterCompletion ==
    [][(hsFuture = "Done" /\ hs.pc = "idle") =>
          /\ hsRes' = "Panic:polled after completion"
          /\ UNCHANGED <<hsFuture, streamAt, conn, hs, ioOps>>]_vars

\* C17 witness: the future was polled again after it had yielded the Stream
C17_Witness ==
    /\ hsRes = "Panic:polled after completion"
    /\ streamAt = "caller"
    /\ lastRound.res = "Ready(Ok)"

\* C18: a Stream is yielded (Ready(Ok(stream))) only with an engine that is no
\* longer handshaking.
C18_ReadyOkOnlyWhenHandshaken ==
    (hsRes = "Ready(Ok)" \/ streamAt = "caller") => ~is_handshaking(conn)

\* C18 witness: the Stream was yielded after more transport operations than a
\* handshake without partial or blocked operations takes
C18_Witness ==
    /\ hsRes = "Ready(Ok)"
    /\ streamAt = "caller"
    /\ ioOps > 3

\* C19: whenever a poll of the Handshake Future has returned Pending, the
\* future is Handshaking and holds the Stream.
C19_PendingKeepsStream ==
    (hsRes = "Pending" /\ hs.pc = "idle") =>
        (hsFuture = "Handshaking" /\ streamAt = "future")

\* C19 witness: a poll returned Pending after the first flight had been written
C19_Witness ==
    /\ hsRes = "Pending"
    /\ hs.pc = "idle"
    /\ ioOps > 0
    /\ conn.sendable = 0
    /\ is_handshaking(conn)

\* C20: a handshake() call that saw end-of-file and returned with the engine
\* still handshaking returned an error; a call that reached its final match
\* with the engine no longer handshaking returned Ready(Ok), whatever eof and
\* the blocked flags were.
C20_EofFatalCompleteOk ==
    /\ (lastRound.eof /\ lastRound.handshaking) => lastRound.res = "Ready(Err)"
    /\ (lastRound.at = "match" /\ ~lastRound.handshaking) => lastRound.res = "Ready(Ok)"

\* C20 witness: a round ended at the final match with end-of-file seen and the
\* engine still handshaking
C20_Witness ==
    /\ lastRound.at = "match"
    /\ lastRound.eof
    /\ lastRound.handshaking
    /\ lastRound.res = "Ready(Err)"

C40_PendingHasWakeup ==
    /\ [](lastRound.res = "Pending" => lastRound.pended)
    /\ []((hsRes = "Pending" /\ hs.pc = "idle") =>
             (lastRound.res = "Pending" /\ lastRound.pended))
    /\ <>(hsRes \in {"Ready(Ok)", "Ready(Err)"} \/ ioOps = MaxOps)

\* C40 witness: the Future returned Pending after a handshake() call in which
\* a transport operation returned Pending
C40_Witness ==
    /\ hsRes = "Pending"
    /\ hs.pc = "idle"
    /\ lastRound.res = "Pending"
    /\ lastRound.pended
    /\ ioOps < MaxOps

(***************************************************************************)
(* Further actor claims                                                    *)
(***************************************************************************)
\* a poll of HttpsConn has nothing to answer: the mailbox is empty and no
\* envelope whose oneshot sender is still held is parked or in the mailbox
NothingUnanswered == mailbox = <<>> /\ \A i \in EnvIds : tx[i] # "live"

\* C26: a poll that begins with every Client handle dropped, no shutdown
\* signal queued and no request unanswered ends the task with
\* Ready(Err("chan disconnected")), also after requests have been served.
C26_DisconnectedEndsTask ==
    [][(/\ pc = "idle"
        /\ ~clientAlive
        /\ shutdownSig = 0
        /\ NothingUnanswered
        /\ pc' # "idle") =>
           (pc' = "done_err" /\ lastPoll'.out = "Ready(Err)")]_vars

\* WriteFailSpec: the actor on a transport whose poll_write and poll_flush
\* return Ready(Err) every time; the peer gets nothing and may only close
WriteFailNext ==
    \/ PollStart
    \/ \E r \in {"Ok", "Pending", "Err"}, k \in ReadSizes : LoopIter("Err", r, k)
    \/ Park
    \/ Execute
    \/ \E i \in EnvIds : DropReceiver(i)
    \/ ShutdownCall
    \/ DropClient
    \/ PeerClose

WriteFailSpec == ActorSpecInit /\ [][WriteFailNext]_vars

\* C27: when poll_write or poll_flush returned Ready(Err) the turn is over:
\* the loop does not go on to a next iteration, no envelope is parked, nothing
\* is delivered, the task ends with Ready(Err) and the caller's oneshot sender
\* is dropped.
C27_WriteErrorFatal ==
    /\ iter = 0
    /\ chan = <<>>
    /\ sends = <<>>
    /\ pc \in {"idle", "loop", "done_err", "done_ok"}

\* a decode error was delivered to a caller
ErrDelivered == \E j \in 1..Len(sends) : sends[j].kind = "Err"

\* C28: once a decode error has been delivered the actor takes no further
\* loop iteration (each one writes the request to the stream and reads from
\* it), feeds the decoder nothing and delivers nothing.
C28_NoUseAfterDecodeError ==
    [][ErrDelivered =>
          /\ decoder' = decoder
          /\ sends' = sends
          /\ LoopIterEnabled => (pc' = pc /\ iter' = iter)]_vars

\* C29: whenever the latest poll returned Pending because the mailbox was
\* empty and an envelope has been enqueued since, the actor task is scheduled
\* to be polled.
C29_NoLostWakeup ==
    (lastPoll.out = "Pending" /\ mailbox # <<>>) => wakeDue

(***************************************************************************)
(* Transfer-Encoding other than chunked (checked under EncodedSpec)        *)
(***************************************************************************)
\* C30: for a response whose Transfer-Encoding is recognised but is not plain
\* chunked, a first decode() call that holds the whole header block does not
\* panic, and after the whole response was fed in one decode() call the
\* decoder returned Ok and is finished (by Content-Length, or at once without
\* one), holds the body bytes as they came and has the encoding in the header
\* list of its Response.
C30_OtherEncodingsAccumulate ==
    inp.kind = "encoded" =>
        /\ (calls = 1 /\ fed >= inp.hdrLen /\ lastRes # "get_resp") => dpanic = ""
        /\ (calls = 1 /\ fed = Len(inp.bytes) /\ lastRes # "get_resp") =>
              /\ lastRes = "Ok"
              /\ finished(decoder)
              /\ decoder.content = inp.body
              /\ decoder.resp # <<>>
              /\ decoder.resp[1].headers = inp.headers

(***************************************************************************)
(* Header lines and chunk records (checked under WireSpec)                 *)
(***************************************************************************)
\* the first decode() call, holding the whole header block, has returned
FirstCallWithHeaders == calls = 1 /\ fed >= inp.hdrLen /\ lastRes # "get_resp"

\* C31: after a decode() call that held the whole header block, the header
\* list of the Response in progress has one entry per header line, in wire
\* order, an unrecognised name being kept with its name and its complete value.
C31_EveryHeaderLineKept ==
    (inp.kind = "headers" /\ FirstCallWithHeaders) =>
        /\ decoder.resp # <<>>
        /\ decoder.resp[1].headers = inp.headers

\* C36: a response whose chunk record has a hex length of two digits, fed
\* whole in one decode() call, is decoded without error to exactly the
\* payload bytes of the record, and the parse goes on to the last chunk.
C36_ChunkPayloadExact ==
    (inp.kind = "hexchunk" /\ calls = 1 /\ fed = Len(inp.bytes) /\ lastRes # "get_resp") =>
        /\ lastRes = "Ok"
        /\ finished(decoder)
        /\ decoder.content = inp.body

\* C35: while no byte of the chunk record with hex length 0 was delivered,
\* a decode() call that parsed the headers leaves the decoder in
\* ChunkedContent, also when the delivery ends inside a hex-length line or
\* inside a chunk record
C35_FinishedOnlyAtZeroChunk ==
    (inp.kind = "chunked" /\ FirstCallWithHeaders
                          /\ fed <= Len(inp.bytes) - Len(LastChunk)) =>
        /\ dpanic = ""
        /\ decoder.state = "ChunkedContent"

\* C37: with neither Content-Length nor chunked, the first decode() call, when
\* it parses the header block, ends with the decoder Finished and the body
\* bytes of that call as content, whatever they are; bytes of later calls
\* change neither the content nor the Response
C37_NoLengthFinishesAtOnce ==
    [][/\ (inp.kind = "nolen" /\ calls = 0 /\ calls' = 1 /\ fed' >= inp.hdrLen) =>
              /\ lastRes' = "Ok"
              /\ finished(decoder')
              /\ decoder'.resp # <<>>
              /\ decoder'.content = Slice(inp.bytes, inp.hdrLen, fed')
       /\ (inp.kind = "nolen" /\ finished(decoder) /\ fed' > fed) =>
              /\ decoder'.content = decoder.content
              /\ decoder'.resp = decoder.resp]_vars

\* a response without length finished by its first call with part of the
\* body, and bytes delivered after that
C37_Witness ==
    /\ inp.kind = "nolen"
    /\ calls >= 2
    /\ everFinished >= inp.hdrLen
    /\ everFinished < Len(inp.bytes)
    /\ fed > everFinished
    /\ finished(decoder)
    /\ decoder.resp # <<>>

\* C38: decode() in phase Finished returns Ok(()) and leaves the phase, the
\* content, the Response in progress, the encoding and the content length
\* as they were
C38_FinishedDecodeIsNoOp ==
    [][(finished(decoder) /\ calls' = calls + 1) =>
           /\ lastRes' = "Ok"
           /\ dpanic' = ""
           /\ decoder' = decoder]_vars

\* a decode() call with new bytes made on a Finished decoder
C38_Witness ==
    /\ calls >= 2
    /\ everFinished >= 0
    /\ fed > everFinished
    /\ lastRes = "Ok"
    /\ finished(decoder)

\* C39: get_resp() returns None while the decoder is not finished, the
\* Response when it is finished and holds one, and None without panicking
\* when it is called again right after it handed the Response out
C39_ResponseHandedOutOnce ==
    [][lastRes' = "get_resp" =>
           /\ ~finished(decoder) => (got' = <<>> /\ dpanic' = "")
           /\ (finished(decoder) /\ decoder.resp # <<>>) => (got' # <<>> /\ dpanic' = "")
           /\ (lastRes = "get_resp" /\ got # <<>>) => (got' = <<>> /\ dpanic' = "")]_vars

(***************************************************************************)
(* Stream::poll_write and Stream::poll_read on a handshaken Stream          *)
(*                                                                         *)
(* The engine's writer takes plaintext up to its buffer limit and queues   *)
(* it as TLS data (conn.sendable, one unit per plaintext byte here); the   *)
(* engine's reader hands out the plaintext the engine has buffered         *)
(* (eng.plain). Every transport operation may return Ready(Ok(n)),         *)
(* Pending or Ready(Err); a transport that reported end-of-file goes on    *)
(* reporting it.                                                           *)
(* sio.pc: "head"  at `while buf.len() != written`                         *)
(*         "drain" at `while self.conn.wants_write()` of poll_write        *)
(*         "loop"  at `while self.conn.wants_read()` of poll_read          *)
(***************************************************************************)
\* bound: the longest buffer passed to poll_write
MaxBuf == 4
\* bound: the plaintext the engine buffers for its reader
MaxPlain == 2
\* bound: the engine's limit on queued TLS data (rustls: 64 KiB by default)
EngineLimit == 2

\* the bytes a caller's buffer is made of, all distinct
PlainBytes == <<"a", "b", "c", "d", "e", "f">>

\* ClientConnection::wants_read once plaintext can be buffered: not while
\* plaintext is unread, not after close_notify
stream_wants_read(c, e) == e.plain = 0 /\ ~e.close_notify /\ wants_read(c)

\* Writer::write(buf): the engine takes what fits under its limit, from the
\* start of the slice it is given
writer_write(c, buf) == Min(Len(buf), EngineLimit - Min(c.sendable, EngineLimit))

\* the receiving side after process_new_packets() accepted new bytes: nothing
\* new (an incomplete record), plaintext buffered, close_notify received
EngineReadAfter(e) ==
    {e,
     [e EXCEPT !.plain = Min(@ + 1, MaxPlain)],
     [e EXCEPT !.close_notify = TRUE],
     [e EXCEPT !.plain = Min(@ + 1, MaxPlain), !.close_notify = TRUE]}

\* poll_write: the slice passed to `self.conn.writer().write(buf)` when
\* `written` bytes were accepted so far
poll_write_slice(buf, done) == buf

\* poll_write: `let mut written = 0` of a call made when `before` bytes of the
\* same buffer were handed to the engine by the calls that returned Pending
poll_write_resume(before) == 0

\* poll_write or poll_read returns
IoReturn(op, tag, n) ==
    /\ sres' = IoResult(op, tag, n, sio.start)
    /\ sio' = NoIo

\* the caller calls poll_write(buf): with the buffer of the call that returned
\* Pending, or with a new buffer of n bytes
PwBegin(n) ==
    /\ sio.op = "none"
    /\ IF sres.op = "write" /\ sres.tag = "Pending"
       THEN /\ n = Len(wbuf)
            /\ sio' = [NoIo EXCEPT !.op = "write", !.pc = "head",
                                   !.written = poll_write_resume(Len(handed)),
                                   !.start = Len(handed)]
            /\ UNCHANGED <<wbuf, handed>>
       ELSE /\ wbuf' = SubSeq(PlainBytes, 1, n)
            /\ handed' = <<>>
            /\ sio' = [NoIo EXCEPT !.op = "write", !.pc = "head"]
    /\ UNCHANGED <<sres, eng, tEof>>
    /\ UNCHANGED decVars
    /\ UNCHANGED reqVars
    /\ UNCHANGED actVars
    /\ UNCHANGED hsVars

\* poll_write: `while buf.len() != written`, then writer().write(buf) returning w
PwWrite(w) ==
    /\ sio.op = "write"
    /\ sio.pc = "head"
    /\ IF Len(wbuf) = sio.written
       THEN /\ IoReturn("write", "Ok", sio.written)
            /\ UNCHANGED <<conn, handed>>
       ELSE CASE w = "Err" ->
                   /\ IoReturn("write", "Err", 0)
                   /\ UNCHANGED <<conn, handed>>
              [] w = "Ok" ->
                   \E m \in {writer_write(conn, poll_write_slice(wbuf, sio.written))} :
                      /\ handed' = handed \o SubSeq(poll_write_slice(wbuf, sio.written), 1, m)
                      /\ conn' = [conn EXCEPT !.sendable = @ + m]
                      /\ sio' = [sio EXCEPT !.pc = "drain", !.written = @ + m]
                      /\ UNCHANGED sres
    /\ UNCHANGED <<eng, wbuf, tEof>>
    /\ UNCHANGED <<hsFuture, streamAt, hs, hsRes, lastRound, ioOps>>
    /\ UNCHANGED decVars
    /\ UNCHANGED reqVars
    /\ UNCHANGED actVars

\* poll_write: one pass of `while self.conn.wants_write()`, io_write returning t
\* (n units written for Ready(Ok(n)))
PwDrain(t, n) ==
    /\ sio.op = "write"
    /\ sio.pc = "drain"
    /\ IF ~wants_write(conn)
       THEN /\ sio' = [sio EXCEPT !.pc = "head"]
            /\ UNCHANGED <<sres, conn, ioOps>>
       ELSE /\ ioOps < MaxOps
            /\ ioOps' = ioOps + 1
            /\ CASE t = "Pending" ->
                      /\ IoReturn("write", "Pending", 0)
                      /\ UNCHANGED conn
                 [] t = "Err" ->
                      /\ IoReturn("write", "Err", 0)
                      /\ UNCHANGED conn
                 [] t = "Ok" ->
                      /\ n <= conn.sendable
                      /\ conn' = [conn EXCEPT !.sendable = @ - n]
                      /\ UNCHANGED <<sio, sres>>
    /\ UNCHANGED <<eng, wbuf, handed, tEof>>
    /\ UNCHANGED <<hsFuture, streamAt, hs, hsRes, lastRound>>
    /\ UNCHANGED decVars
    /\ UNCHANGED reqVars
    /\ UNCHANGED actVars

\* the caller calls poll_read(buf)
PrBegin ==
    /\ sio.op = "none"
    /\ sio' = [NoIo EXCEPT !.op = "read", !.pc = "loop", !.start = Len(handed)]
    /\ UNCHANGED <<sres, eng, wbuf, handed, tEof>>
    /\ UNCHANGED decVars
    /\ UNCHANGED reqVars
    /\ UNCHANGED actVars
    /\ UNCHANGED hsVars

\* poll_read: one pass of `while self.conn.wants_read()`; io_read's read_tls
\* returns r (n for Ready(Ok(n)), 0 being end-of-file) and process_new_packets
\* returns p; after the loop, reader().read(buf) with a buffer of cap bytes
PrLoop(r, n, p, cap) ==
    /\ sio.op = "read"
    /\ sio.pc = "loop"
    /\ IF ~stream_wants_read(conn, eng)
       THEN /\ IF eng.plain > 0
               THEN /\ IoReturn("read", "Ok", Min(cap, eng.plain))
                    /\ eng' = [eng EXCEPT !.plain = @ - Min(cap, eng.plain)]
               ELSE /\ IoReturn("read", IF eng.close_notify THEN "Ok" ELSE "Err", 0)
                    /\ UNCHANGED eng
            /\ UNCHANGED <<conn, ioOps, tEof>>
       ELSE /\ ioOps < MaxOps
            /\ tEof => (r = "Ok" /\ n = 0)
            /\ eng.failed => p = "Err"
            /\ CASE r = "Err" ->
                      /\ ioOps' = ioOps + 1
                      /\ IoReturn("read", "Err", 0)
                      /\ UNCHANGED <<conn, eng, tEof>>
                 [] r = "Pending" ->
                      /\ ioOps' = ioOps + 1
                      /\ IoReturn("read", "Pending", 0)
                      /\ UNCHANGED <<conn, eng, tEof>>
                 [] r = "Ok" /\ p = "Err" ->
                      \* the last-ditch write_tls, then Err(InvalidData)
                      /\ n > 0 \/ eng.failed
                      /\ ioOps' = ioOps + (IF wants_write(conn) THEN 2 ELSE 1)
                      /\ \E k \in 0..conn.sendable : conn' = [conn EXCEPT !.sendable = k]
                      /\ eng' = [eng EXCEPT !.failed = TRUE]
                      /\ tEof' = (tEof \/ n = 0)
                      /\ IoReturn("read", "Err", 0)
                 [] r = "Ok" /\ p = "Ok" ->
                      /\ ioOps' = ioOps + 1
                      /\ UNCHANGED <<conn, sres>>
                      /\ IF n = 0
                         THEN /\ tEof' = TRUE
                              /\ sio' = [sio EXCEPT !.eofReads = @ + 1]
                              /\ UNCHANGED eng
                         ELSE /\ eng' \in EngineReadAfter(eng)
                              /\ UNCHANGED <<sio, tEof>>
    /\ UNCHANGED <<wbuf, handed>>
    /\ UNCHANGED <<hsFuture, streamAt, hs, hsRes, lastRound>>
    /\ UNCHANGED decVars
    /\ UNCHANGED reqVars
    /\ UNCHANGED actVars

\* the Stream a completed Handshake Future yielded: the engine is no longer
\* handshaking and may have its last flight still queued
StreamInit ==
    /\ hsFuture = "Done"
    /\ streamAt = "caller"
    /\ conn \in {[handshaking |-> FALSE, sendable |-> k] : k \in 0..1}
    /\ hs = NoCall
    /\ hsRes = "Ready(Ok)"
    /\ lastRound = RoundRecord("match", FALSE, FALSE, FALSE, 2, FALSE, <<1, 1>>, "Ready(Ok)")
    /\ ioOps = 0

StreamSpecInit ==
    /\ decoder = DataDecoder_new
    /\ input = "Len2"
    /\ HarnessInit
    /\ ActorInit
    /\ StreamInit
    /\ IoInit
    /\ RequestInit

StreamNext ==
    \/ \E n \in 0..MaxBuf : PwBegin(n)
    \/ \E w \in {"Ok", "Err"} : PwWrite(w)
    \/ \E t \in {"Ok", "Pending", "Err"}, n \in 0..EngineLimit : PwDrain(t, n)
    \/ PrBegin
    \/ \E r \in {"Ok", "Pending", "Err"}, n \in 0..1, p \in {"Ok", "Err"}, cap \in 1..MaxPlain :
           PrLoop(r, n, p, cap)

\* StreamSpec: poll_write and poll_read called again and again on a handshaken
\* Stream, with an arbitrary transport and peer
StreamSpec == StreamSpecInit /\ [][StreamNext]_vars

(***************************************************************************)
(* Stream claims (checked under StreamSpec)                                *)
(***************************************************************************)
\* the plaintext handed to the engine between the start of the latest call and now
HandedByCall(start) == SubSeq(handed, start + 1, Len(handed))

\* C22: when poll_write(buf) returns Ready(Ok(n)), n is buf.len() and the
\* plaintext handed to the engine during the call is buf, once and in order.
C22_WriteHandsBufOnce ==
    (sio.op = "none" /\ sres.op = "write" /\ sres.tag = "Ok") =>
        /\ sres.n = Len(wbuf)
        /\ HandedByCall(sres.start) = wbuf

\* C23: a poll_write call made again with the same buffer after Pending hands
\* the engine only bytes of the buffer that were not handed before.
C23_ResumeHandsNothingTwice ==
    (sio.op = "write" /\ sio.start > 0) =>
        /\ Len(handed) <= Len(wbuf)
        /\ HandedByCall(sio.start) = SubSeq(wbuf, sio.start + 1, Len(handed))

\* C24: in one poll_read call the transport is read at most once after it
\* reported end-of-file, and a call that returns Ready(Ok(0)) leaves no
\* plaintext buffered.
C24_EofEndsRead ==
    /\ sio.eofReads <= 1
    /\ (sres.op = "read" /\ sres.tag = "Ok" /\ sres.n = 0) => eng.plain = 0

\* C25: once process_new_packets has failed, no transport operation is
\* performed any more and every poll_read and poll_write returns an error.
C25_DecryptErrorCloses ==
    [][eng.failed =>
          /\ ioOps' = ioOps
          /\ (sres' # sres => sres'.tag = "Err")]_vars

(***************************************************************************)
(* RequestSpec: a Client's HeaderList filled by put(), read by get(),      *)
(* header_slice() and iter(), dropped; requests built by a ReqBuilder that *)
(* takes the Client's default headers and headers passed to add_headers    *)
(***************************************************************************)
MaxPuts == 26
MaxExtra == 2
MaxDefault == 3

Routes == {<<>>, <<<<"/", "a">>>>}
Contents == {<<>>, <<<<"h", "i">>>>}

\* the pairs put() was called with and the list had room for
StoredPairs == [i \in 1 .. Min(hputs, HEADER_MAX) |-> HdrPair(i)]

\* the map loop of Client::connect: one put()
PutHeader ==
    /\ hlive
    /\ hputs < MaxPuts
    /\ hlist' = put(hlist, HdrPair(hputs + 1))
    /\ hputs' = hputs + 1
    /\ UNCHANGED <<hread, hlive, hfreed, req>>
    /\ UNCHANGED decVars
    /\ UNCHANGED actVars
    /\ UNCHANGED hsVars
    /\ UNCHANGED ioVars

GetHeader(index) ==
    /\ hlive
    /\ hread' = ReadRecord("get", index, hlist.cursor, get(hlist, index))
    /\ UNCHANGED <<hlist, hputs, hlive, hfreed, req>>
    /\ UNCHANGED decVars
    /\ UNCHANGED actVars
    /\ UNCHANGED hsVars
    /\ UNCHANGED ioVars

HeaderSlice ==
    /\ hlive
    /\ hread' = ReadRecord("header_slice", 0, hlist.cursor, header_slice(hlist))
    /\ UNCHANGED <<hlist, hputs, hlive, hfreed, req>>
    /\ UNCHANGED decVars
    /\ UNCHANGED actVars
    /\ UNCHANGED hsVars
    /\ UNCHANGED ioVars

IterHeaders ==
    /\ hlive
    /\ hread' = ReadRecord("iter", 0, hlist.cursor, HeaderList_iter(hlist))
    /\ UNCHANGED <<hlist, hputs, hlive, hfreed, req>>
    /\ UNCHANGED decVars
    /\ UNCHANGED actVars
    /\ UNCHANGED hsVars
    /\ UNCHANGED ioVars

DropList ==
    /\ hlive
    /\ hlive' = FALSE
    /\ hfreed' = HeaderList_drop(hlist)
    /\ UNCHANGED <<hlist, hputs, hread, req>>
    /\ UNCHANGED decVars
    /\ UNCHANGED actVars
    /\ UNCHANGED hsVars
    /\ UNCHANGED ioVars

\* the builder calls of tests::req_builder, then construct()
Built(method, route, dflt, extras, content) ==
    LET b0 == ReqBuilder_new(method)
        b1 == IF route = <<>> THEN b0 ELSE set_route(b0, route[1])
        b2 == IF dflt THEN default_headers(b1, hlist) ELSE b1
        b3 == IF extras = <<>> THEN b2 ELSE add_headers(b2, extras)
        b4 == IF content = <<>> THEN b3 ELSE set_content(b3, content[1])
    IN  construct(b4)

BuildRequest(method, route, dflt, n, content) ==
    /\ hlive
    /\ LET extras == [i \in 1 .. n |-> ExtraPair(i)]
       IN  req' = RequestRecord(method, route, IF dflt THEN StoredPairs ELSE <<>>,
                                extras, content,
                                Built(method, route, dflt, extras, content))
    /\ UNCHANGED <<hlist, hputs, hread, hlive, hfreed>>
    /\ UNCHANGED decVars
    /\ UNCHANGED actVars
    /\ UNCHANGED hsVars
    /\ UNCHANGED ioVars

HeaderListInit ==
    /\ decoder = DataDecoder_new
    /\ input = "NoLen"
    /\ HarnessInit
    /\ ActorInit
    /\ HandshakeInit
    /\ IoInit
    /\ RequestInit

HeaderListNext ==
    \/ PutHeader
    \/ \E index \in 0 .. HEADER_MAX : GetHeader(index)
    \/ HeaderSlice
    \/ IterHeaders
    \/ DropList

HeaderListSpec == HeaderListInit /\ [][HeaderListNext]_vars

\* the map loop of Client::connect: put() for each of the n entries
RECURSIVE put_each(_, _, _)
put_each(hdrlist, done, n) ==
    IF done = n THEN hdrlist ELSE put_each(put(hdrlist, HdrPair(done + 1)), done + 1, n)

\* a Client connected with a map of up to MaxDefault headers
RequestSpecInit ==
    /\ decoder = DataDecoder_new
    /\ input = "NoLen"
    /\ HarnessInit
    /\ ActorInit
    /\ HandshakeInit
    /\ IoInit
    /\ hputs \in 0 .. MaxDefault
    /\ hlist = put_each(HeaderList_new, 0, hputs)
    /\ hread = ReadRecord("none", 0, 0, <<>>)
    /\ hlive = TRUE
    /\ hfreed = <<>>
    /\ req = RequestRecord("none", <<>>, <<>>, <<>>, <<>>, <<>>)

RequestNext ==
    \E method \in Methods, route \in Routes, dflt \in BOOLEAN,
       n \in 0 .. MaxExtra, content \in Contents :
        BuildRequest(method, route, dflt, n, content)

RequestSpec == RequestSpecInit /\ [][RequestNext]_vars

\* the request the builder's inputs describe
RequestOf(r) ==
    Method_bytes(r.method)
        \o (IF r.route = <<>> THEN <<"/">> ELSE r.route[1])
        \o <<" ", "H", "T", "T", "P", "/", "1", ".", "1", CR, LF>>
        \o HeaderLines(r.defaults) \o HeaderLines(r.extras)
        \o <<CR, LF>>
        \o (IF r.content = <<>> THEN <<>> ELSE r.content[1])

\* C32: construct() yields the request line, then a line for every default
\* header of the Client and every header passed to add_headers, in insertion
\* order, then the blank line and the content
C32_RequestHasEveryHeader ==
    req.method # "none" => req.out = RequestOf(req)

\* C33: the list never holds more than HEADER_MAX headers, a put() on a full
\* list leaves it unchanged, no slot outside the array is written, and Drop
\* destroys exactly the initialised slots
C33_HeaderListNeverOverflows ==
    /\ hlist.cursor <= HEADER_MAX
    /\ hlist.ub = ""
    /\ hlist.cursor = Min(hputs, HEADER_MAX)
    /\ \A i \in HdrSlots :
           hlist.hdr[i] = IF i < hlist.cursor THEN <<HdrPair(i + 1)>> ELSE <<>>
    /\ ~hlive =>
           /\ Len(hfreed) = hlist.cursor
           /\ {hfreed[j] : j \in 1 .. Len(hfreed)} = 0 .. (hlist.cursor - 1)

\* a full list that took further put() calls and was dropped
C33_Witness ==
    /\ ~hlive
    /\ hputs > HEADER_MAX
    /\ Len(hfreed) = HEADER_MAX

\* C34: after k successful put() calls get(i) returns the i-th pair for
\* i < k and None for i >= k, and header_slice() and iter() both expose
\* exactly those k pairs in order
C34_ReadsExposeStoredPairs ==
    /\ hread.op = "get" =>
           hread.out = IF hread.arg < hread.k THEN <<HdrPair(hread.arg + 1)>> ELSE <<>>
    /\ hread.op \in {"header_slice", "iter"} =>
           hread.out = [i \in 1 .. hread.k |-> HdrPair(i)]

====
